---------------------------- MODULE Spec2Model ----------------------------
(***************************************************************************)
(* A model of the HypnoS search core: the UCI command loop and the         *)
(* go/stop/ponder lifecycle of the thread pool (uci.cpp, search.cpp), the  *)
(* recursive search and quiescence frames, the root move list, the         *)
(* transposition table and its value normalisation.                        *)
(*                                                                         *)
(* Several specifications share the variables; each one drives one part    *)
(* of the program and leaves the other parts in their idle state.          *)
(***************************************************************************)
EXTENDS Integers, Sequences, FiniteSets, TLC

(***************************************************************************)
(* Bounds of the model.                                                    *)
(***************************************************************************)
NumHelpers == 1        \* non-main worker threads
MaxRootDepth == 3      \* stands for MAX_PLY in the iterative-deepening guard
MaxNodes == 1          \* non-root nodes the main thread visits per go
MaxRetries == 1        \* aspiration re-searches per iteration
MaxElapsed == 1        \* clock ticks observed during one go
MaxGo == 1             \* go commands the controller sends
TotalTime == 0         \* budget of the iteration-end time check (ticks)
TimeMaximum == 0       \* Time.maximum() (ticks)
DepthGiven == 1        \* value of "go depth"
MateGiven == 1         \* value of "go mate"
NodesGiven == 1        \* value of "go nodes"
MoveTimeGiven == 1     \* value of "go movetime" (ticks)
PerftGiven == 1        \* value of "go perft"

ValueSpread == 1       \* sampled values lie this close to each boundary
PlySpread == 1         \* sampled plies lie this close to 0 and to MAX_PLY
R50Spread == 1         \* sampled rule-50 counts lie this close to 0 and to 89
NumKeys == 2           \* position keys that fall into the modelled cluster
MaxNewSearch == 1      \* TT.new_search() calls
MaxTTDepth == 8        \* deepest search depth saved in the table
NumRootMoves == 2      \* most legal moves at the root
MaxIterations == 2     \* iterative-deepening iterations over the root moves
MaxScore == 1          \* root values are multiples of 15 up to 15 * MaxScore
MaxTbRank == 1         \* tablebase ranks of root moves are 0 .. MaxTbRank
MaxStack == 2          \* frames of one worker that are open at a time
MaxMoves == 2          \* moves a node tries before its move loop ends
MaxResearch == 1       \* aspiration re-searches of search<Root>
MaxVariety == 1        \* largest value of the Variety option
MaxConfig == 1         \* setoption and ucinewgame commands the controller sends
NumWriters == 1        \* workers that save into the entry another worker reads
MaxSaves == 2          \* saves into that entry
MaxPerftDepth == 3     \* largest "go perft" depth, and the height of the move tree
MaxBranch == 2         \* most legal moves of a position of the move tree
MaxEarlierPicks == 2   \* picks made by the earlier searches of a process
MaxTurns == 1          \* changes between failing low and failing high in one aspiration loop
MaxDetours == 2        \* extended, reduced and early searches along one line of the tree
MaxPicked == 3         \* moves the move picker of a node returns
MaxGenSearches == 70   \* TT.new_search() calls in the life of one entry
MaxUpdates == 2        \* updates of one history counter

(***************************************************************************)
(* Values and depths (types.h).                                            *)
(***************************************************************************)
VALUE_ZERO == 0
VALUE_DRAW == 0
VALUE_MATE == 32000
VALUE_INFINITE == 32001
VALUE_NONE == 32002
MAX_PLY == 246
VALUE_MATE_IN_MAX_PLY == VALUE_MATE - MAX_PLY
VALUE_MATED_IN_MAX_PLY == -VALUE_MATE_IN_MAX_PLY
VALUE_TB == VALUE_MATE_IN_MAX_PLY - 1
VALUE_TB_WIN_IN_MAX_PLY == VALUE_TB - MAX_PLY
VALUE_TB_LOSS_IN_MAX_PLY == -VALUE_TB_WIN_IN_MAX_PLY
DEPTH_QS_CHECKS == 0
DEPTH_QS_NO_CHECKS == -1
DEPTH_NONE == -6
DEPTH_OFFSET == -7
BOUND_NONE == 0
BOUND_UPPER == 1
BOUND_LOWER == 2
BOUND_EXACT == 3
MOVE_NONE == 0

(***************************************************************************)
(* The transposition table's layout (tt.h).                                *)
(***************************************************************************)
ClusterSize == 2
GENERATION_BITS == 3
GENERATION_DELTA == 2 ^ GENERATION_BITS
GENERATION_CYCLE == 255 + 2 ^ GENERATION_BITS

Min(a, b) == IF a < b THEN a ELSE b
Max(a, b) == IF a > b THEN a ELSE b
Abs(a) == IF a < 0 THEN -a ELSE a

Helpers == 1 .. NumHelpers

VARIABLES
    uciPc,            \* UCI::loop: "read", or the command it is blocked in
    mainPc,           \* position of the main thread in MainThread::search
    helperPc,         \* position of each helper in Thread::search
    stop,             \* Threads.stop
    ponder,           \* MainThread::ponder
    stopOnPonderhit,  \* MainThread::stopOnPonderhit
    Limits,           \* Search::Limits
    rootDepth,        \* Thread::rootDepth, per thread (0 is the main thread)
    completedDepth,   \* Thread::completedDepth of the main thread
    callsCnt,         \* MainThread::callsCnt
    nodes,            \* nodes searched by the main thread in this go
    retries,          \* aspiration re-searches of the current iteration
    elapsed,          \* Time.elapsed(), in ticks
    bestmoves,        \* "bestmove" lines printed for the current go
    goNo,             \* go commands processed so far
    goPonder,         \* the current go was "go ponder"
    released,         \* stop, quit or ponderhit was processed since the go
    stopDuringSearch, \* stop or quit was processed while the search ran
    vtPc,             \* value round trip: "idle", "input", "stored", "read"
    vtIn,             \* its input: the value, the ply and the rule-50 count
    vtStored,         \* the value as value_to_tt hands it to the table
    vtOut,            \* the value as value_from_tt hands it back
    vtShown,          \* the score UCI::value printed for the value, or NoScore
    ttTable,          \* the entries of one cluster of the table
    generation8,      \* TranspositionTable::generation8
    ttPc,             \* "idle", "ready", "probed" or "saved"
    ttKey,            \* the key of the latest probe
    tte,              \* the entry the latest probe returned
    ttHit,            \* the hit flag the latest probe returned
    ttLastSave,       \* the key of the latest save, 0 before the first
    rootMoves,        \* Thread::rootMoves, indexed from 0
    pvIdx,            \* Thread::pvIdx
    pvFirst,          \* pvFirst of Thread::search
    pvLast,           \* Thread::pvLast
    multiPV,          \* multiPV of Thread::search
    skillEnabled,     \* skill.enabled()
    skillBest,        \* skill.best
    rmPc,             \* position in MainThread::search / Thread::search
    rmDepth,          \* rootDepth of the thread whose root moves these are
    rmSearched,       \* root moves the running search<Root> has searched
    rmWindow,         \* alpha, beta, delta of the aspiration loop
    rmNode,           \* alpha and bestValue inside the running search<Root>
    rootInCheck,      \* rootPos.checkers() is not empty
    infoLines,        \* the "info depth 0" lines MainThread::search has printed
    bestLine,         \* the "bestmove" line it has printed, or NoLine
    searchStarted,    \* start_searching() and Thread::search() were called
    srPc,             \* frames: "idle", "start", "run", "asp" or "done"
    stack,            \* the search and qsearch frames of one worker
    srRet,            \* the value the latest frame returned, until it is used
    srWindow,         \* alpha, beta, delta of the worker's aspiration loop
    srResearch,       \* re-searches of the aspiration loop so far
    srRoot,           \* rootDepth and failedHighCnt of the aspiration loop
    srNodes,          \* Thread::nodes of the worker, modulo 4
    stopSeen,         \* a frame of the worker has read Threads.stop as true
    lateWrite,        \* the first table write made after that, or "none"
    rootUpdate,       \* "none", or how the last update of a rootMoves entry stands to the stop
    guardedSaves,     \* saves of its own entry by a frame with excludedMove or a later root line
    optionSets,       \* assignments Options[name] = value made so far
    searchClears,     \* TT.clear() and Threads.clear() calls made so far
    cfgWaited,        \* the latest setoption or ucinewgame found a search running
    shEntry,          \* key and move16 of one entry of the shared table
    wrPc,             \* each writer's position in TTEntry::save
    wrArg,            \* the key and the move each writer is saving
    saves,            \* saves begun so far
    rdPc,             \* the reader's position in search or extract_ponder_from_tt
    rdRole,           \* "search", "ponder", or "none" when no reader runs
    rdHit,            \* ss->ttHit of the reader
    rdMove,           \* ttMove of the reader
    usedHistory,      \* moves with which the reader updated killers and histories
    usedBoard,        \* moves the reader played on the board
    usedPonder,       \* moves the reader appended to the pv as ponder move
    pfShape,          \* the legal-move tree below the root position
    pfDepth,          \* Limits.perft
    pfPc,             \* "idle", "start" or "done"
    pfPos,            \* rootPos: the moves made on it and not yet undone
    pfNodes,          \* the result of perft<true>(rootPos, Limits.perft)
    evPc,             \* "idle", "start" or "done"
    evIn,             \* the options, the position and the network outputs
    evOut,            \* the value Eval::evaluate returned
    skScores,         \* the scores of the root moves of the compared search, best first
    skLevel,          \* skill.level
    skRun,            \* each run of the process: its generator and its pick
    aspPc,            \* "idle", "call", "returned" or "done"
    aspIn,            \* rootDepth and searchAgainCounter of the iteration
    aspWindow,        \* alpha, beta and delta of the aspiration loop
    aspFailedHighCnt, \* failedHighCnt
    aspCall,          \* the window and depth last handed to search<Root>
    aspValue,         \* bestValue, what search<Root> returned
    aspRetries,       \* re-searches of the loop so far
    aspLast,          \* "none", or how the last result failed: "low" or "high"
    aspTurns,         \* how often the results changed from failing low to failing high or back
    lnPc,             \* position of the frame at the tip of the line
    lnFrame,          \* the frame at the tip: function, node type, ply, depth
    lnRootDepth,      \* rootDepth of the iteration the line belongs to
    lnDetours,        \* extended, reduced and early searches on the line so far
    idPc,             \* position of the worker in the loop of Thread::search
    idWorker,         \* the worker: main or helper, Limits.depth, multiPV
    idRootDepth,      \* Thread::rootDepth
    idCompletedDepth, \* Thread::completedDepth
    idPvIdx,          \* Thread::pvIdx
    idLines,          \* lines of the iteration searched to the end with the stop flag clear
    ctLimits,         \* Limits: time management, movetime, nodes
    ctPonder,         \* MainThread::ponder
    ctOver,           \* Time.elapsed() > Time.maximum()
    ctCallsCnt,       \* MainThread::callsCnt
    ctSince,          \* calls of check_time since the last executed check
    ctMissed,         \* an executed check found the maximum exceeded and left stop clear
    ndPc,             \* position of the node: in its move loop, after it, done
    ndNode,           \* the node: search or qsearch, in check, material, excluded move, moves
    ndIdx,            \* moves the picker has returned
    ndMoveCount,      \* moveCount
    ndBestValue,      \* bestValue
    ndQuietCheckEvasions, \* quietCheckEvasions of qsearch
    ndSearched,       \* the moves searched, by their place in the picker order
    ndPastCap,        \* searches made after two quiet check evasions
    ndResult,         \* what the node returns: a value or a no-move result
    pbIn,             \* the node at step 12: in check, node type, table entry, depth, beta
    pbOut,            \* whether step 12 returned, and the value
    gnGeneration8,    \* TranspositionTable::generation8 over many searches
    gnGenBound8,      \* TTEntry::genBound8 of one entry
    gnSince,          \* new_search calls since the entry was written or refreshed
    gnCalls,          \* new_search calls made
    hsTable,          \* the history table the counter belongs to
    hsEntry,          \* the counter, an int16_t of the table
    hsBonus,          \* the bonus last passed to operator<< of the counter
    hsSite,           \* the place in the search that passed it
    hsUpdates         \* updates of the counter made

uciVars == <<uciPc, mainPc, helperPc, stop, ponder, stopOnPonderhit, Limits,
             rootDepth, completedDepth, callsCnt, nodes, retries, elapsed,
             bestmoves, goNo, goPonder, released, stopDuringSearch>>

vtVars == <<vtPc, vtIn, vtStored, vtOut, vtShown>>

ttVars == <<ttTable, generation8, ttPc, ttKey, tte, ttHit, ttLastSave>>

\* what MainThread::search prints, and what it prints it from
rmOut == <<rootInCheck, infoLines, bestLine, searchStarted>>

rmVars == <<rootMoves, pvIdx, pvFirst, pvLast, multiPV, skillEnabled,
            skillBest, rmPc, rmDepth, rmSearched, rmWindow, rmNode, rmOut>>

\* the variables of the UCI part other than the stop flag
uciRest == <<uciPc, mainPc, helperPc, ponder, stopOnPonderhit, Limits,
             rootDepth, completedDepth, callsCnt, nodes, retries, elapsed,
             bestmoves, goNo, goPonder, released, stopDuringSearch>>

srVars == <<srPc, stack, srRet, srWindow, srResearch, srRoot, srNodes, stopSeen,
            lateWrite, rootUpdate, guardedSaves>>

cfgVars == <<optionSets, searchClears, cfgWaited>>

raceVars == <<shEntry, wrPc, wrArg, saves, rdPc, rdRole, rdHit, rdMove,
              usedHistory, usedBoard, usedPonder>>

pfVars == <<pfShape, pfDepth, pfPc, pfPos, pfNodes>>

evVars == <<evPc, evIn, evOut>>

skVars == <<skScores, skLevel, skRun>>

aspVars == <<aspPc, aspIn, aspWindow, aspFailedHighCnt, aspCall, aspValue, aspRetries, aspLast, aspTurns>>

lnVars == <<lnPc, lnFrame, lnRootDepth, lnDetours>>

idVars == <<idPc, idWorker, idRootDepth, idCompletedDepth, idPvIdx, idLines>>

ctVars == <<ctLimits, ctPonder, ctOver, ctCallsCnt, ctSince, ctMissed>>

ndVars == <<ndPc, ndNode, ndIdx, ndMoveCount, ndBestValue, ndQuietCheckEvasions, ndSearched, ndPastCap, ndResult>>

pbVars == <<pbIn, pbOut>>

gnVars == <<gnGeneration8, gnGenBound8, gnSince, gnCalls>>

hsVars == <<hsTable, hsEntry, hsBonus, hsSite, hsUpdates>>

vars == <<uciVars, vtVars, ttVars, rmVars, srVars, cfgVars, raceVars, pfVars,
         evVars,
         skVars,
         aspVars,
         lnVars,
         idVars,
         ctVars,
         ndVars,
         pbVars,
         gnVars,
         hsVars>>

nonUciVars == <<vtVars, ttVars, rmVars, srVars, cfgVars, raceVars,
    pfVars,
    evVars,
    skVars,
    aspVars,
    lnVars,
    idVars,
    ctVars,
    ndVars,
    pbVars,
    gnVars,
    hsVars>>
nonVtVars == <<uciVars, ttVars, rmVars, srVars, cfgVars, raceVars,
    pfVars,
    evVars,
    skVars,
    aspVars,
    lnVars,
    idVars,
    ctVars,
    ndVars,
    pbVars,
    gnVars,
    hsVars>>
nonTtVars == <<uciVars, vtVars, rmVars, srVars, cfgVars, raceVars,
    pfVars,
    evVars,
    skVars,
    aspVars,
    lnVars,
    idVars,
    ctVars,
    ndVars,
    pbVars,
    gnVars,
    hsVars>>
nonRmVars == <<uciRest, vtVars, ttVars, srVars, cfgVars, raceVars,
    pfVars,
    evVars,
    skVars,
    aspVars,
    lnVars,
    idVars,
    ctVars,
    ndVars,
    pbVars,
    gnVars,
    hsVars>>
nonSrVars == <<uciRest, vtVars, ttVars, rmVars, cfgVars, raceVars,
    pfVars,
    evVars,
    skVars,
    aspVars,
    lnVars,
    idVars,
    ctVars,
    ndVars,
    pbVars,
    gnVars,
    hsVars>>
nonCfgVars == <<vtVars, ttVars, rmVars, srVars, raceVars,
    pfVars,
    evVars,
    skVars,
    aspVars,
    lnVars,
    idVars,
    ctVars,
    ndVars,
    pbVars,
    gnVars,
    hsVars>>
nonPfVars == <<uciVars, vtVars, ttVars, rmVars, srVars, cfgVars, raceVars,
    evVars,
    skVars,
    aspVars,
    lnVars,
    idVars,
    ctVars,
    ndVars,
    pbVars,
    gnVars,
    hsVars>>
nonEvVars == <<uciVars, vtVars, ttVars, rmVars, srVars, cfgVars, raceVars, pfVars,
    skVars,
    aspVars,
    lnVars,
    idVars,
    ctVars,
    ndVars,
    pbVars,
    gnVars,
    hsVars>>
nonSkVars == <<uciVars, vtVars, ttVars, rmVars, srVars, cfgVars, raceVars, pfVars, evVars,
    aspVars,
    lnVars,
    idVars,
    ctVars,
    ndVars,
    pbVars,
    gnVars,
    hsVars>>
nonAspVars == <<uciVars, vtVars, ttVars, rmVars, srVars, cfgVars, raceVars, pfVars, evVars, skVars,
    lnVars,
    idVars,
    ctVars,
    ndVars,
    pbVars,
    gnVars,
    hsVars>>
nonLnVars == <<uciVars, vtVars, ttVars, rmVars, srVars, cfgVars, raceVars, pfVars, evVars, skVars, aspVars,
    idVars,
    ctVars,
    ndVars,
    pbVars,
    gnVars,
    hsVars>>
nonIdVars == <<uciVars, vtVars, ttVars, rmVars, srVars, cfgVars, raceVars, pfVars, evVars, skVars, aspVars, lnVars,
    ctVars,
    ndVars,
    pbVars,
    gnVars,
    hsVars>>
\* all but the loop's variables and the stop flag
nonIdStopVars == <<uciRest, vtVars, ttVars, rmVars, srVars, cfgVars, raceVars, pfVars, evVars, skVars, aspVars, lnVars,
    ctVars,
    ndVars,
    pbVars,
    gnVars,
    hsVars>>
nonCtVars == <<uciVars, vtVars, ttVars, rmVars, srVars, cfgVars, raceVars, pfVars, evVars, skVars, aspVars, lnVars, idVars,
    ndVars,
    pbVars,
    gnVars,
    hsVars>>
\* all but the counter's variables and the stop flag
nonCtStopVars == <<uciRest, vtVars, ttVars, rmVars, srVars, cfgVars, raceVars, pfVars, evVars, skVars, aspVars, lnVars, idVars,
    ndVars,
    pbVars,
    gnVars,
    hsVars>>
nonNdVars == <<uciVars, vtVars, ttVars, rmVars, srVars, cfgVars, raceVars, pfVars, evVars, skVars, aspVars, lnVars, idVars, ctVars,
    pbVars,
    gnVars,
    hsVars>>
nonPbVars == <<uciVars, vtVars, ttVars, rmVars, srVars, cfgVars, raceVars, pfVars, evVars, skVars, aspVars, lnVars, idVars, ctVars, ndVars,
    gnVars,
    hsVars>>
nonGnVars == <<uciVars, vtVars, ttVars, rmVars, srVars, cfgVars, raceVars, pfVars, evVars, skVars, aspVars, lnVars, idVars, ctVars, ndVars, pbVars,
    hsVars>>
nonHsVars == <<uciVars, vtVars, ttVars, rmVars, srVars, cfgVars, raceVars, pfVars, evVars, skVars, aspVars, lnVars, idVars, ctVars, ndVars, pbVars, gnVars>>
nonRaceVars == <<uciVars, vtVars, ttVars, rmVars, srVars, cfgVars,
    pfVars,
    evVars,
    skVars,
    aspVars,
    lnVars,
    idVars,
    ctVars,
    ndVars,
    pbVars,
    gnVars,
    hsVars>>

(***************************************************************************)
(* The limits of a go command (uci.cpp, go).  At most one of the limit     *)
(* kinds is given besides "infinite" and "ponder".                         *)
(***************************************************************************)
LimitKinds == {"none", "mate", "depth", "nodes", "movetime", "time", "perft"}

MkLimits(inf, kind) ==
    [infinite |-> inf,
     mate     |-> IF kind = "mate" THEN MateGiven ELSE 0,
     depth    |-> IF kind = "depth" THEN DepthGiven ELSE 0,
     nodes    |-> IF kind = "nodes" THEN NodesGiven ELSE 0,
     movetime |-> IF kind = "movetime" THEN MoveTimeGiven ELSE 0,
     perft    |-> IF kind = "perft" THEN PerftGiven ELSE 0,
     useTime  |-> kind = "time"]

NoLimits == MkLimits(FALSE, "none")

UciInit ==
    /\ uciPc = "read"
    /\ mainPc = "idle"
    /\ helperPc = [h \in Helpers |-> "idle"]
    /\ stop = FALSE
    /\ ponder = FALSE
    /\ stopOnPonderhit = FALSE
    /\ Limits = NoLimits
    /\ rootDepth = [t \in 0 .. NumHelpers |-> 0]
    /\ completedDepth = 0
    /\ callsCnt = 0
    /\ nodes = 0
    /\ retries = 0
    /\ elapsed = 0
    /\ bestmoves = 0
    /\ goNo = 0
    /\ goPonder = FALSE
    /\ released = FALSE
    /\ stopDuringSearch = FALSE

Searching == mainPc # "idle"

(***************************************************************************)
(* UCI::loop                                                               *)
(***************************************************************************)
\* "stop": Threads.stop = true
UciStop ==
    /\ uciPc = "read"
    /\ stop' = TRUE
    /\ released' = (released \/ Searching)
    /\ stopDuringSearch' = (stopDuringSearch \/ (Searching /\ Limits.perft = 0))
    /\ UNCHANGED <<uciPc, mainPc, helperPc, ponder, stopOnPonderhit, Limits,
                   rootDepth, completedDepth, callsCnt, nodes, retries,
                   elapsed, bestmoves, goNo, goPonder>>
    /\ UNCHANGED nonUciVars

\* "quit": Threads.stop = true, and the loop ends
UciQuit ==
    /\ uciPc = "read"
    /\ stop' = TRUE
    /\ uciPc' = "quit"
    /\ released' = (released \/ Searching)
    /\ stopDuringSearch' = (stopDuringSearch \/ (Searching /\ Limits.perft = 0))
    /\ UNCHANGED <<mainPc, helperPc, ponder, stopOnPonderhit, Limits,
                   rootDepth, completedDepth, callsCnt, nodes, retries,
                   elapsed, bestmoves, goNo, goPonder>>
    /\ UNCHANGED nonUciVars

\* "ponderhit" as the claim describes it: stopOnPonderhit is cleared as well
PonderhitClearing ==
    /\ uciPc = "read"
    /\ ponder' = FALSE
    /\ stopOnPonderhit' = FALSE
    /\ released' = (released \/ Searching)
    /\ UNCHANGED <<uciPc, mainPc, helperPc, stop, Limits, rootDepth,
                   completedDepth, callsCnt, nodes, retries, elapsed,
                   bestmoves, goNo, goPonder, stopDuringSearch>>
    /\ UNCHANGED nonUciVars

\* "ponderhit": Threads.main()->ponder = false
UciPonderhit ==
    /\ uciPc = "read"
    /\ ponder' = FALSE
    /\ released' = (released \/ Searching)
    /\ UNCHANGED <<uciPc, mainPc, helperPc, stop, stopOnPonderhit, Limits,
                   rootDepth, completedDepth, callsCnt, nodes, retries,
                   elapsed, bestmoves, goNo, goPonder, stopDuringSearch>>
    /\ UNCHANGED nonUciVars

\* "go": go() parses the limits and calls Threads.start_thinking, which first
\* waits for the main thread to finish the search it is running
UciGo ==
    /\ uciPc = "read"
    /\ goNo < MaxGo
    /\ uciPc' = "go"
    /\ UNCHANGED <<mainPc, helperPc, stop, ponder, stopOnPonderhit, Limits,
                   rootDepth, completedDepth, callsCnt, nodes, retries,
                   elapsed, bestmoves, goNo, goPonder, released,
                   stopDuringSearch>>
    /\ UNCHANGED nonUciVars

\* ThreadPool::start_thinking, called by go()
StartThinking ==
    /\ uciPc = "go"
    /\ mainPc = "idle"
    /\ \E inf \in BOOLEAN, kind \in LimitKinds, ponderMode \in BOOLEAN :
          /\ kind = "perft" => (~inf /\ ~ponderMode)
          /\ Limits' = MkLimits(inf, kind)
          /\ ponder' = ponderMode
          /\ goPonder' = ponderMode
    /\ stop' = FALSE
    /\ stopOnPonderhit' = FALSE
    /\ rootDepth' = [t \in 0 .. NumHelpers |-> 0]
    /\ completedDepth' = 0
    /\ nodes' = 0
    /\ retries' = 0
    /\ elapsed' = 0
    /\ bestmoves' = 0
    /\ goNo' = goNo + 1
    /\ released' = FALSE
    /\ stopDuringSearch' = FALSE
    /\ mainPc' = "start"
    /\ uciPc' = "read"
    /\ UNCHANGED <<helperPc, callsCnt>>
    /\ UNCHANGED nonUciVars

\* the wall clock advances while a search runs
Tick ==
    /\ Searching
    /\ elapsed < MaxElapsed
    /\ elapsed' = elapsed + 1
    /\ UNCHANGED <<uciPc, mainPc, helperPc, stop, ponder, stopOnPonderhit,
                   Limits, rootDepth, completedDepth, callsCnt, nodes,
                   retries, bestmoves, goNo, goPonder, released,
                   stopDuringSearch>>
    /\ UNCHANGED nonUciVars

(***************************************************************************)
(* setoption and ucinewgame (uci.cpp, Search::clear)                       *)
(***************************************************************************)
CfgInit ==
    /\ optionSets = 0
    /\ searchClears = 0
    /\ cfgWaited = FALSE

\* the variables of the UCI part that these commands leave alone
uciNoPc == <<mainPc, helperPc, stop, ponder, stopOnPonderhit, Limits,
             rootDepth, completedDepth, callsCnt, nodes, retries, elapsed,
             bestmoves, goNo, goPonder, released, stopDuringSearch>>

\* "setoption": setoption() is entered and waits for the main thread
UciSetoption ==
    /\ uciPc = "read"
    /\ optionSets + searchClears < MaxConfig
    /\ uciPc' = "setoption"
    /\ cfgWaited' = Searching
    /\ UNCHANGED <<optionSets, searchClears>>
    /\ UNCHANGED uciNoPc
    /\ UNCHANGED nonCfgVars

\* a setoption() that assigns without Threads.main()->wait_for_search_finished()
SetoptionWithoutWait ==
    /\ uciPc = "setoption"
    /\ optionSets' = optionSets + 1
    /\ uciPc' = "read"
    /\ UNCHANGED <<searchClears, cfgWaited>>
    /\ UNCHANGED uciNoPc
    /\ UNCHANGED nonCfgVars

\* setoption() after wait_for_search_finished(): Options[name] = value
SetoptionAssign ==
    /\ uciPc = "setoption"
    /\ mainPc = "idle"
    /\ optionSets' = optionSets + 1
    /\ uciPc' = "read"
    /\ UNCHANGED <<searchClears, cfgWaited>>
    /\ UNCHANGED uciNoPc
    /\ UNCHANGED nonCfgVars

\* "ucinewgame": Search::clear() is entered and waits for the main thread
UciNewGame ==
    /\ uciPc = "read"
    /\ optionSets + searchClears < MaxConfig
    /\ uciPc' = "ucinewgame"
    /\ cfgWaited' = Searching
    /\ UNCHANGED <<optionSets, searchClears>>
    /\ UNCHANGED uciNoPc
    /\ UNCHANGED nonCfgVars

\* Search::clear() after wait_for_search_finished(): TT.clear(),
\* Threads.clear()
SearchClear ==
    /\ uciPc = "ucinewgame"
    /\ mainPc = "idle"
    /\ searchClears' = searchClears + 1
    /\ uciPc' = "read"
    /\ UNCHANGED <<optionSets, cfgWaited>>
    /\ UNCHANGED uciNoPc
    /\ UNCHANGED nonCfgVars

(***************************************************************************)
(* MainThread::check_time                                                  *)
(***************************************************************************)
CheckTimeLimitHit(n) ==
    \/ Limits.useTime /\ (elapsed > TimeMaximum \/ stopOnPonderhit)
    \/ Limits.movetime # 0 /\ elapsed >= Limits.movetime
    \/ Limits.nodes # 0 /\ n >= Limits.nodes

CheckTimeExecutes == ~(callsCnt - 1 > 0)

CheckTimeCallsCnt ==
    IF ~CheckTimeExecutes THEN callsCnt - 1
    ELSE IF Limits.nodes # 0 THEN Min(512, Limits.nodes \div 1024) ELSE 512

CheckTimeStop(n) ==
    IF CheckTimeExecutes /\ ~ponder /\ CheckTimeLimitHit(n) THEN TRUE ELSE stop

(***************************************************************************)
(* MainThread::search and the main thread's Thread::search                 *)
(***************************************************************************)
BookAllowed ==
    /\ ~(Limits.infinite \/ Limits.mate # 0 \/ Limits.depth # 0
         \/ Limits.nodes # 0 \/ Limits.perft # 0)
    /\ ~ponder

MainStart ==
    /\ mainPc = "start"
    /\ IF Limits.perft # 0
       THEN /\ mainPc' = "idle"
            /\ UNCHANGED helperPc
       ELSE \E noMoves \in BOOLEAN, bookHit \in BOOLEAN :
               IF noMoves \/ (BookAllowed /\ bookHit)
               THEN /\ mainPc' = "wait"
                    /\ UNCHANGED helperPc
               ELSE /\ mainPc' = "loop"
                    /\ helperPc' = [h \in Helpers |-> "loop"]
    /\ UNCHANGED <<uciPc, stop, ponder, stopOnPonderhit, Limits, rootDepth,
                   completedDepth, callsCnt, nodes, retries, elapsed,
                   bestmoves, goNo, goPonder, released, stopDuringSearch>>
    /\ UNCHANGED nonUciVars

\* the guard of the iterative-deepening loop
MainLoop ==
    /\ mainPc = "loop"
    /\ rootDepth' = [rootDepth EXCEPT ![0] = @ + 1]
    /\ retries' = 0
    /\ IF /\ rootDepth[0] + 1 < MaxRootDepth
          /\ ~stop
          /\ ~(Limits.depth # 0 /\ rootDepth[0] + 1 > Limits.depth)
       THEN mainPc' = "asp"
       ELSE mainPc' = "wait"
    /\ UNCHANGED <<uciPc, helperPc, stop, ponder, stopOnPonderhit, Limits,
                   completedDepth, callsCnt, nodes, elapsed, bestmoves, goNo,
                   goPonder, released, stopDuringSearch>>
    /\ UNCHANGED nonUciVars

\* search<Root> is entered: the root node polls check_time
MainEnterRoot ==
    /\ mainPc = "asp"
    /\ callsCnt' = CheckTimeCallsCnt
    /\ stop' = CheckTimeStop(nodes)
    /\ mainPc' = "root"
    /\ UNCHANGED <<uciPc, helperPc, ponder, stopOnPonderhit, Limits,
                   rootDepth, completedDepth, nodes, retries, elapsed,
                   bestmoves, goNo, goPonder, released, stopDuringSearch>>
    /\ UNCHANGED nonUciVars

\* a node below the root: do_move counts it, search() polls check_time, and a
\* tablebase probe forces the next poll to execute
MainNode ==
    /\ mainPc = "root"
    /\ nodes < MaxNodes
    /\ nodes' = nodes + 1
    /\ stop' = CheckTimeStop(nodes + 1)
    /\ \E tbProbe \in BOOLEAN :
          callsCnt' = IF tbProbe THEN 0 ELSE CheckTimeCallsCnt
    /\ UNCHANGED <<uciPc, mainPc, helperPc, ponder, stopOnPonderhit, Limits,
                   rootDepth, completedDepth, retries, elapsed, bestmoves,
                   goNo, goPonder, released, stopDuringSearch>>
    /\ UNCHANGED nonUciVars

\* search<Root> returns into the aspiration loop
MainRootReturn ==
    /\ mainPc = "root"
    /\ IF stop
       THEN /\ mainPc' = "iter_end"
            /\ UNCHANGED <<stopOnPonderhit, retries>>
       ELSE \E res \in {"low", "high", "inside"} :
               /\ res # "inside" => retries < MaxRetries
               /\ mainPc' = IF res = "inside" THEN "iter_end" ELSE "asp"
               /\ retries' = IF res = "inside" THEN retries ELSE retries + 1
               /\ stopOnPonderhit' =
                     IF res = "low" THEN FALSE ELSE stopOnPonderhit
    /\ UNCHANGED <<uciPc, helperPc, stop, ponder, Limits, rootDepth,
                   completedDepth, callsCnt, nodes, elapsed, bestmoves, goNo,
                   goPonder, released, stopDuringSearch>>
    /\ UNCHANGED nonUciVars

\* the end of an iteration: completedDepth, "mate in x", time management
MainIterEnd ==
    /\ mainPc = "iter_end"
    /\ completedDepth' = IF ~stop THEN rootDepth[0] ELSE completedDepth
    /\ \E mateFound \in BOOLEAN :
          LET stop1 == stop \/ (Limits.mate # 0 /\ mateFound)
              timed == Limits.useTime /\ ~stop1 /\ ~stopOnPonderhit
                       /\ elapsed > TotalTime
          IN /\ stop' = (stop1 \/ (timed /\ ~ponder))
             /\ stopOnPonderhit' = (stopOnPonderhit \/ (timed /\ ponder))
    /\ mainPc' = "loop"
    /\ UNCHANGED <<uciPc, helperPc, ponder, Limits, rootDepth, callsCnt,
                   nodes, retries, elapsed, bestmoves, goNo, goPonder,
                   released, stopDuringSearch>>
    /\ UNCHANGED nonUciVars

\* a busy wait that only a stop ends
MainBusyWaitForStop ==
    /\ mainPc = "wait"
    /\ stop
    /\ stop' = TRUE
    /\ mainPc' = "join"
    /\ UNCHANGED <<uciPc, helperPc, ponder, stopOnPonderhit, Limits,
                   rootDepth, completedDepth, callsCnt, nodes, retries,
                   elapsed, bestmoves, goNo, goPonder, released,
                   stopDuringSearch>>
    /\ UNCHANGED nonUciVars

\* the busy wait for a stop or a ponder reset, then Threads.stop = true
MainBusyWait ==
    /\ mainPc = "wait"
    /\ stop \/ ~(ponder \/ Limits.infinite)
    /\ stop' = TRUE
    /\ mainPc' = "join"
    /\ UNCHANGED <<uciPc, helperPc, ponder, stopOnPonderhit, Limits,
                   rootDepth, completedDepth, callsCnt, nodes, retries,
                   elapsed, bestmoves, goNo, goPonder, released,
                   stopDuringSearch>>
    /\ UNCHANGED nonUciVars

\* a main thread that prints without Threads.wait_for_search_finished()
PrintWithoutJoin ==
    /\ mainPc = "join"
    /\ bestmoves' = bestmoves + 1
    /\ mainPc' = "idle"
    /\ UNCHANGED <<uciPc, helperPc, stop, ponder, stopOnPonderhit, Limits,
                   rootDepth, completedDepth, callsCnt, nodes, retries,
                   elapsed, goNo, goPonder, released, stopDuringSearch>>
    /\ UNCHANGED nonUciVars

\* Threads.wait_for_search_finished(), then "bestmove" is printed
MainPrintBest ==
    /\ mainPc = "join"
    /\ \A h \in Helpers : helperPc[h] = "idle"
    /\ bestmoves' = bestmoves + 1
    /\ mainPc' = "idle"
    /\ UNCHANGED <<uciPc, helperPc, stop, ponder, stopOnPonderhit, Limits,
                   rootDepth, completedDepth, callsCnt, nodes, retries,
                   elapsed, goNo, goPonder, released, stopDuringSearch>>
    /\ UNCHANGED nonUciVars

(***************************************************************************)
(* Thread::search of a helper thread                                       *)
(***************************************************************************)
HelperLoop(h) ==
    /\ helperPc[h] = "loop"
    /\ rootDepth' = [rootDepth EXCEPT ![h] = @ + 1]
    /\ helperPc' = [helperPc EXCEPT ![h] =
                       IF rootDepth[h] + 1 < MaxRootDepth /\ ~stop
                       THEN "root" ELSE "idle"]
    /\ UNCHANGED <<uciPc, mainPc, stop, ponder, stopOnPonderhit, Limits,
                   completedDepth, callsCnt, nodes, retries, elapsed,
                   bestmoves, goNo, goPonder, released, stopDuringSearch>>
    /\ UNCHANGED nonUciVars

HelperRootReturn(h) ==
    /\ helperPc[h] = "root"
    /\ helperPc' = [helperPc EXCEPT ![h] = "loop"]
    /\ UNCHANGED <<uciPc, mainPc, stop, ponder, stopOnPonderhit, Limits,
                   rootDepth, completedDepth, callsCnt, nodes, retries,
                   elapsed, bestmoves, goNo, goPonder, released,
                   stopDuringSearch>>
    /\ UNCHANGED nonUciVars

MainStep ==
    \/ MainStart
    \/ MainLoop
    \/ MainEnterRoot
    \/ MainNode
    \/ MainRootReturn
    \/ MainIterEnd
    \/ MainBusyWait
    \/ MainPrintBest

HelperStep(h) == HelperLoop(h) \/ HelperRootReturn(h)

(***************************************************************************)
(* Scores and moves as the protocol shows them (uci.cpp)                   *)
(***************************************************************************)
\* integer division as C++ does it, for a positive divisor
CDiv(a, b) == IF a >= 0 THEN a \div b ELSE -((-a) \div b)

NormalizeToPawnValue == 328

\* a to_cp that rounds down
ToCpFloor(v) == (100 * v) \div NormalizeToPawnValue

\* UCI::to_cp
to_cp(v) == CDiv(100 * v, NormalizeToPawnValue)

\* UCI::value: the unit and the number of the score
UciValue(v) ==
    IF Abs(v) < VALUE_TB_WIN_IN_MAX_PLY
    THEN [unit |-> "cp", n |-> to_cp(v)]
    ELSE IF Abs(v) <= VALUE_TB
    THEN LET ply == VALUE_TB - 1 - Abs(v)
         IN [unit |-> "cp", n |-> IF v > 0 THEN 20000 - ply ELSE -20000 + ply]
    ELSE [unit |-> "mate",
          n |-> IF v > 0 THEN CDiv(VALUE_MATE - v + 1, 2)
                ELSE CDiv(-VALUE_MATE - v, 2)]

\* nothing printed
NoScore == [unit |-> "none", n |-> 0]

\* the replies to the best move: the legal ones, and the moves a table entry
\* can hold besides (none, or a move that is not legal in the position)
LegalReplies == {NumRootMoves + 1, NumRootMoves + 2}
TornMove == NumRootMoves + 3
TTMoveSamples == {MOVE_NONE, TornMove} \cup LegalReplies

\* no "bestmove" line
NoLine == [mv |-> MOVE_NONE, ponder |-> MOVE_NONE, printed |-> FALSE]

(***************************************************************************)
(* value_to_tt and value_from_tt (search.cpp), applied to one value        *)
(***************************************************************************)
value_to_tt(v, ply) ==
    IF v >= VALUE_TB_WIN_IN_MAX_PLY THEN v + ply
    ELSE IF v <= VALUE_TB_LOSS_IN_MAX_PLY THEN v - ply
    ELSE v

\* value_from_tt without the ply adjustment
ValueFromTTNoPly(v, ply, r50c) ==
    IF v = VALUE_NONE THEN VALUE_NONE
    ELSE IF v >= VALUE_TB_WIN_IN_MAX_PLY
    THEN IF v >= VALUE_MATE_IN_MAX_PLY /\ VALUE_MATE - v > 100 - r50c
         THEN VALUE_TB_WIN_IN_MAX_PLY - 1
         ELSE IF VALUE_TB - v > 100 - r50c
         THEN VALUE_TB_WIN_IN_MAX_PLY - 1
         ELSE v
    ELSE IF v <= VALUE_TB_LOSS_IN_MAX_PLY
    THEN IF v <= VALUE_MATED_IN_MAX_PLY /\ VALUE_MATE + v > 100 - r50c
         THEN VALUE_TB_LOSS_IN_MAX_PLY + 1
         ELSE IF VALUE_TB + v > 100 - r50c
         THEN VALUE_TB_LOSS_IN_MAX_PLY + 1
         ELSE v
    ELSE v

value_from_tt(v, ply, r50c) ==
    IF v = VALUE_NONE THEN VALUE_NONE
    ELSE IF v >= VALUE_TB_WIN_IN_MAX_PLY
    THEN IF v >= VALUE_MATE_IN_MAX_PLY /\ VALUE_MATE - v > 100 - r50c
         THEN VALUE_TB_WIN_IN_MAX_PLY - 1
         ELSE IF VALUE_TB - v > 100 - r50c
         THEN VALUE_TB_WIN_IN_MAX_PLY - 1
         ELSE v - ply
    ELSE IF v <= VALUE_TB_LOSS_IN_MAX_PLY
    THEN IF v <= VALUE_MATED_IN_MAX_PLY /\ VALUE_MATE + v > 100 - r50c
         THEN VALUE_TB_LOSS_IN_MAX_PLY + 1
         ELSE IF VALUE_TB + v > 100 - r50c
         THEN VALUE_TB_LOSS_IN_MAX_PLY + 1
         ELSE v + ply
    ELSE v

Around(c, w) == (c - w) .. (c + w)

\* values next to every boundary the two functions test, of both signs
ValueSamples ==
    LET pos == UNION {Around(c, ValueSpread) :
                        c \in {VALUE_ZERO, VALUE_TB_WIN_IN_MAX_PLY,
                               VALUE_TB - 100, VALUE_TB - 11, VALUE_TB,
                               VALUE_MATE - 100, VALUE_MATE}}
    IN {v \in pos \cup {-x : x \in pos} : Abs(v) <= VALUE_MATE}

PlySamples == (0 .. PlySpread) \cup ((MAX_PLY - PlySpread) .. MAX_PLY)

R50Samples == (0 .. R50Spread) \cup Around(89, R50Spread)

\* a value the search can hold at this ply: a mate or tablebase score is
\* counted from the root, so it is at least ply plies away
ValueAtPly(v, ply) ==
    IF Abs(v) >= VALUE_MATE_IN_MAX_PLY THEN Abs(v) + ply <= VALUE_MATE
    ELSE IF Abs(v) >= VALUE_TB_WIN_IN_MAX_PLY THEN Abs(v) + ply <= VALUE_TB
    ELSE TRUE

VtIdle ==
    /\ vtPc = "idle"
    /\ vtIn = [v |-> VALUE_ZERO, ply |-> 0, r50c |-> 0]
    /\ vtStored = VALUE_NONE
    /\ vtOut = VALUE_NONE
    /\ vtShown = NoScore

VtInit ==
    /\ vtPc = "input"
    /\ vtIn \in {i \in [v : ValueSamples, ply : PlySamples, r50c : R50Samples] :
                    ValueAtPly(i.v, i.ply)}
    /\ vtStored = VALUE_NONE
    /\ vtOut = VALUE_NONE
    /\ vtShown = NoScore

\* tte->save(posKey, value_to_tt(value, ss->ply), ...)
VtStore ==
    /\ vtPc = "input"
    /\ vtStored' = value_to_tt(vtIn.v, vtIn.ply)
    /\ vtPc' = "stored"
    /\ UNCHANGED <<vtIn, vtOut, vtShown>>
    /\ UNCHANGED nonVtVars

\* ttValue = value_from_tt(tte->value(), ss->ply, pos.rule50_count())
VtLoad ==
    /\ vtPc = "stored"
    /\ vtOut' = value_from_tt(vtStored, vtIn.ply, vtIn.r50c)
    /\ vtPc' = "read"
    /\ UNCHANGED <<vtIn, vtStored, vtShown>>
    /\ UNCHANGED nonVtVars

\* UCI::pv: " score " << UCI::value(v)
VtShow ==
    /\ vtPc # "idle"
    /\ vtShown = NoScore
    /\ vtShown' = UciValue(vtIn.v)
    /\ UNCHANGED <<vtPc, vtIn, vtStored, vtOut>>
    /\ UNCHANGED nonVtVars

(***************************************************************************)
(* TranspositionTable::probe and TTEntry::save on one cluster (tt.h,       *)
(* tt.cpp)                                                                 *)
(***************************************************************************)
Keys == 1 .. NumKeys

Slots == 0 .. (ClusterSize - 1)

EmptyEntry == [key |-> 0, depth8 |-> 0, genBound8 |-> 0, move16 |-> MOVE_NONE]

\* TTEntry::bound, TTEntry::is_pv, TTEntry::depth
EntryBound(e) == e.genBound8 % 4
EntryIsPv(e) == (e.genBound8 \div 4) % 2 = 1
EntryDepth(e) == e.depth8 + DEPTH_OFFSET

\* x & GENERATION_MASK, for x >= 0
AndGenerationMask(x) == ((x \div GENERATION_DELTA) % 32) * GENERATION_DELTA

\* the aging score by which probe picks the entry to replace
ReplaceScore(e) ==
    e.depth8 - AndGenerationMask(GENERATION_CYCLE + generation8 - e.genBound8)

\* a hit is an entry with the probed key whose bound is not BOUND_NONE
ProbeHits(k) == {i \in Slots : ttTable[i].key = k /\ EntryBound(ttTable[i]) # BOUND_NONE}

ProbeVictim ==
    CHOOSE i \in Slots :
        \A j \in Slots :
            \/ ReplaceScore(ttTable[i]) < ReplaceScore(ttTable[j])
            \/ ReplaceScore(ttTable[i]) = ReplaceScore(ttTable[j]) /\ i <= j

TtIdle ==
    /\ ttTable = [i \in Slots |-> EmptyEntry]
    /\ generation8 = 0
    /\ ttPc = "idle"
    /\ ttKey = 0
    /\ tte = 0
    /\ ttHit = FALSE
    /\ ttLastSave = 0

TtInit ==
    /\ ttTable = [i \in Slots |-> EmptyEntry]
    /\ generation8 = 0
    /\ ttPc = "ready"
    /\ ttKey = 0
    /\ tte = 0
    /\ ttHit = FALSE
    /\ ttLastSave = 0

\* TT.new_search(): generation8 += GENERATION_DELTA, in 8 bits
TtNewSearch ==
    /\ ttPc # "idle"
    /\ generation8 < MaxNewSearch * GENERATION_DELTA
    /\ generation8' = (generation8 + GENERATION_DELTA) % 256
    /\ UNCHANGED <<ttTable, ttPc, ttKey, tte, ttHit, ttLastSave>>
    /\ UNCHANGED nonTtVars

\* tte = TT.probe(posKey, ss->ttHit)
TtProbe ==
    /\ ttPc # "idle"
    /\ \E k \in Keys :
          /\ ttKey' = k
          /\ IF ProbeHits(k) # {}
             THEN LET i == CHOOSE x \in ProbeHits(k) : \A y \in ProbeHits(k) : x <= y
                  IN /\ tte' = i
                     /\ ttHit' = TRUE
                     /\ ttTable' = [ttTable EXCEPT ![i].genBound8 =
                                       generation8 + (@ % GENERATION_DELTA)]
             ELSE /\ tte' = ProbeVictim
                  /\ ttHit' = FALSE
                  /\ UNCHANGED ttTable
    /\ ttPc' = "probed"
    /\ UNCHANGED <<generation8, ttLastSave>>
    /\ UNCHANGED nonTtVars

\* the arguments of the tte->save calls of search.cpp: bound, depth, move
SaveArgs ==
    {[b |-> BOUND_NONE, d |-> DEPTH_NONE, m |-> MOVE_NONE],
     [b |-> BOUND_LOWER, d |-> DEPTH_NONE, m |-> MOVE_NONE],
     [b |-> BOUND_UPPER, d |-> DEPTH_QS_NO_CHECKS, m |-> MOVE_NONE],
     [b |-> BOUND_LOWER, d |-> DEPTH_QS_CHECKS, m |-> 1],
     [b |-> BOUND_UPPER, d |-> 1, m |-> MOVE_NONE],
     [b |-> BOUND_LOWER, d |-> MaxTTDepth - 3, m |-> 1],
     [b |-> BOUND_EXACT, d |-> MaxTTDepth, m |-> 1]}

\* tte->save(posKey, value, pv, bound, depth, move, eval) on the entry the
\* latest probe returned
TtSave ==
    /\ ttPc \in {"probed", "saved"}
    /\ \E a \in SaveArgs, pv \in BOOLEAN :
          LET e == ttTable[tte]
              m1 == IF a.m # MOVE_NONE \/ e.key # ttKey THEN a.m ELSE e.move16
              over == \/ a.b = BOUND_EXACT
                      \/ e.key # ttKey
                      \/ a.d > EntryDepth(e) - 4
          IN ttTable' = [ttTable EXCEPT ![tte] =
                IF over
                THEN [key |-> ttKey,
                      depth8 |-> a.d - DEPTH_OFFSET,
                      genBound8 |-> generation8 + (IF pv THEN 4 ELSE 0) + a.b,
                      move16 |-> m1]
                ELSE [e EXCEPT !.move16 = m1]]
    /\ ttLastSave' = ttKey
    /\ ttPc' = "saved"
    /\ UNCHANGED <<generation8, ttKey, tte, ttHit>>
    /\ UNCHANGED nonTtVars

(***************************************************************************)
(* The root move list in MainThread::search and Thread::search             *)
(***************************************************************************)

\* RootMove::operator<: a sorts before b
RootMoveLess(a, b) ==
    IF a.score # b.score THEN a.score > b.score
    ELSE a.previousScore > b.previousScore

\* a sort of rm[lo .. hi-1] that leaves the range as it is
NoSort(rm, lo, hi) == rm

\* std::stable_sort(rm.begin() + lo, rm.begin() + hi)
StableSort(rm, lo, hi) ==
    LET idx == {i \in DOMAIN rm : lo <= i /\ i < hi}
        before(j, i) == \/ RootMoveLess(rm[j], rm[i])
                        \/ ~RootMoveLess(rm[i], rm[j]) /\ j < i
        place(i) == lo + Cardinality({j \in idx : before(j, i)})
    IN [k \in DOMAIN rm |->
          IF k \in idx THEN rm[CHOOSE i \in idx : place(i) = k] ELSE rm[k]]

\* std::swap(rm[0], rm[i])
SwapFront(rm, i) == [rm EXCEPT ![0] = rm[i], ![i] = rm[0]]

RootValues == {15 * k : k \in 0 .. MaxScore}

\* a root move as start_thinking builds it, with the rank of rank_root_moves
NewRootMove(mv, rank) ==
    [mv |-> mv, score |-> -VALUE_INFINITE, previousScore |-> -VALUE_INFINITE,
     averageScore |-> -VALUE_INFINITE, tbRank |-> rank]

\* the root move lists of start_thinking: ranked by rank_root_moves, so the
\* ranks never increase along the list
InitialRootMoves ==
    {<<>>} \cup
    UNION {{[i \in 0 .. (n - 1) |-> NewRootMove(i + 1, r[i])] :
               r \in {q \in [0 .. (n - 1) -> 0 .. MaxTbRank] :
                         \A i \in 1 .. (n - 1) : q[i - 1] >= q[i]}} :
             n \in 1 .. NumRootMoves}

NoWindow == [alpha |-> -VALUE_INFINITE, beta |-> VALUE_INFINITE, delta |-> 0]
NoNode == [alpha |-> -VALUE_INFINITE, bestValue |-> -VALUE_INFINITE]

RmIdle ==
    /\ rootMoves = <<>>
    /\ pvIdx = 0
    /\ pvFirst = 0
    /\ pvLast = 0
    /\ multiPV = 1
    /\ skillEnabled = FALSE
    /\ skillBest = MOVE_NONE
    /\ rmPc = "idle"
    /\ rmDepth = 0
    /\ rmSearched = {}
    /\ rmWindow = NoWindow
    /\ rmNode = NoNode
    /\ rootInCheck = FALSE
    /\ infoLines = <<>>
    /\ bestLine = NoLine
    /\ searchStarted = FALSE

RmInit ==
    /\ rootMoves \in InitialRootMoves
    /\ pvIdx = 0
    /\ pvFirst = 0
    /\ pvLast = 0
    /\ multiPV \in 1 .. NumRootMoves
    /\ skillEnabled \in BOOLEAN
    /\ skillBest = MOVE_NONE
    /\ rmPc = "start"
    /\ rmDepth = 0
    /\ rmSearched = {}
    /\ rmWindow = NoWindow
    /\ rmNode = NoNode
    /\ rootInCheck \in BOOLEAN
    /\ infoLines = <<>>
    /\ bestLine = NoLine
    /\ searchStarted = FALSE

RootSize == Cardinality(DOMAIN rootMoves)

\* "stop" arrives, or check_time raises Threads.stop
RmStop ==
    /\ rmPc \notin {"idle", "done"}
    /\ ~stop
    /\ stop' = TRUE
    /\ UNCHANGED rmVars
    /\ UNCHANGED nonRmVars

\* MainThread::search up to Thread::search: no legal move, a book move, or
\* the search; the multiPV of Thread::search
RmStart ==
    /\ rmPc = "start"
    /\ IF rootMoves = <<>>
       THEN /\ rootMoves' = [i \in {0} |-> NewRootMove(MOVE_NONE, 0)]
            /\ infoLines' = Append(infoLines,
                   [depth |-> 0,
                    score |-> UciValue(IF rootInCheck THEN -VALUE_MATE
                                       ELSE VALUE_DRAW)])
            /\ rmPc' = "done"
            /\ UNCHANGED <<multiPV, searchStarted>>
       ELSE \E book \in {MOVE_NONE} \cup {rootMoves[i].mv : i \in DOMAIN rootMoves} :
               IF book # MOVE_NONE
               THEN /\ rootMoves' = SwapFront(rootMoves,
                          CHOOSE i \in DOMAIN rootMoves : rootMoves[i].mv = book)
                    /\ rmPc' = "done"
                    /\ UNCHANGED <<multiPV, infoLines, searchStarted>>
               ELSE /\ multiPV' = Min(IF skillEnabled THEN Max(multiPV, 4)
                                      ELSE multiPV, RootSize)
                    /\ searchStarted' = TRUE
                    /\ rmPc' = "id"
                    /\ UNCHANGED <<rootMoves, infoLines>>
    /\ UNCHANGED <<pvIdx, pvFirst, pvLast, skillEnabled, skillBest, rmDepth,
                   rmSearched, rmWindow, rmNode, stop, rootInCheck, bestLine>>
    /\ UNCHANGED nonRmVars

\* the guard of the iterative-deepening loop and the head of its body
RmIterate ==
    /\ rmPc = "id"
    /\ rmDepth' = rmDepth + 1
    /\ IF rmDepth + 1 <= MaxIterations /\ ~stop
       THEN /\ rootMoves' = [i \in DOMAIN rootMoves |->
                               [rootMoves[i] EXCEPT !.previousScore = rootMoves[i].score]]
            /\ pvFirst' = 0
            /\ pvLast' = 0
            /\ pvIdx' = 0
            /\ rmPc' = "pv"
       ELSE /\ rmPc' = "exit"
            /\ UNCHANGED <<rootMoves, pvFirst, pvLast, pvIdx>>
    /\ UNCHANGED <<multiPV, skillEnabled, skillBest, rmSearched, rmWindow,
                   rmNode, stop>>
    /\ UNCHANGED rmOut
    /\ UNCHANGED nonRmVars

\* the aspiration window around a root move's average score
AspirationWindow(avg) ==
    LET delta == 10 + (avg * avg) \div 12493
    IN [alpha |-> Max(avg - delta, -VALUE_INFINITE),
        beta |-> Min(avg + delta, VALUE_INFINITE),
        delta |-> delta]

\* a fail low that lowers alpha to bestValue only
FailLowWithoutMargin(w, bestValue) ==
    [alpha |-> Max(bestValue, -VALUE_INFINITE),
     beta |-> CDiv(w.alpha + w.beta, 2),
     delta |-> w.delta + w.delta \div 3]

\* the window after a fail low
FailLowWindow(w, bestValue) ==
    [alpha |-> Max(bestValue - w.delta, -VALUE_INFINITE),
     beta |-> CDiv(w.alpha + w.beta, 2),
     delta |-> w.delta + w.delta \div 3]

\* the window after a fail high
FailHighWindow(w, bestValue) ==
    [alpha |-> w.alpha,
     beta |-> Min(bestValue + w.delta, VALUE_INFINITE),
     delta |-> w.delta + w.delta \div 3]

\* the MultiPV loop: its guard, the tablebase-rank group of pvIdx and the
\* aspiration window with which search<Root> is entered
RmPvLoop ==
    /\ rmPc = "pv"
    /\ IF pvIdx < multiPV /\ ~stop
       THEN LET first == IF pvIdx = pvLast THEN pvLast ELSE pvFirst
                others == {j \in DOMAIN rootMoves :
                              j > first /\ rootMoves[j].tbRank # rootMoves[first].tbRank}
                last == IF pvIdx # pvLast THEN pvLast
                        ELSE IF others = {} THEN RootSize
                        ELSE CHOOSE j \in others : \A k \in others : j <= k
            IN /\ pvFirst' = first
               /\ pvLast' = last
               /\ rmWindow' = AspirationWindow(rootMoves[pvIdx].averageScore)
               /\ rmNode' = [alpha |-> AspirationWindow(rootMoves[pvIdx].averageScore).alpha,
                             bestValue |-> -VALUE_INFINITE]
               /\ rmSearched' = {}
               /\ rmPc' = "search"
       ELSE /\ rmPc' = "iter_end"
            /\ UNCHANGED <<pvFirst, pvLast, rmWindow, rmNode, rmSearched>>
    /\ UNCHANGED <<rootMoves, pvIdx, multiPV, skillEnabled, skillBest, rmDepth,
                   stop>>
    /\ UNCHANGED rmOut
    /\ UNCHANGED nonRmVars

\* search<Root>: one move of rootMoves[pvIdx .. pvLast-1] is searched, the
\* move of rootMoves[pvIdx] first; on stop the node returns at once
RmSearchMove ==
    /\ rmPc = "search"
    /\ LET todo == {i \in DOMAIN rootMoves :
                       pvIdx <= i /\ i < pvLast /\ i \notin rmSearched}
       IN IF todo = {}
          THEN /\ rmPc' = "sort"
               /\ UNCHANGED <<rootMoves, rmSearched, rmNode>>
          ELSE \E i \in todo, value \in RootValues :
                  /\ rmSearched = {} => i = pvIdx
                  /\ IF stop
                     THEN /\ rmPc' = "sort"
                          /\ UNCHANGED <<rootMoves, rmSearched, rmNode>>
                     ELSE LET rm == rootMoves[i]
                              avg == IF rm.averageScore # -VALUE_INFINITE
                                     THEN CDiv(2 * value + rm.averageScore, 3)
                                     ELSE value
                              sc == IF rmSearched = {} \/ value > rmNode.alpha
                                    THEN value ELSE -VALUE_INFINITE
                          IN /\ rootMoves' = [rootMoves EXCEPT ![i] =
                                   [rm EXCEPT !.averageScore = avg, !.score = sc]]
                             /\ rmSearched' = rmSearched \cup {i}
                             /\ rmNode' =
                                   [alpha |-> IF value > rmNode.bestValue
                                                 /\ value > rmNode.alpha
                                                 /\ value < rmWindow.beta
                                              THEN value ELSE rmNode.alpha,
                                    bestValue |-> Max(value, rmNode.bestValue)]
                             /\ rmPc' = IF value > rmNode.bestValue
                                           /\ value > rmNode.alpha
                                           /\ value >= rmWindow.beta
                                        THEN "sort" ELSE "search"
    /\ UNCHANGED <<pvIdx, pvFirst, pvLast, multiPV, skillEnabled, skillBest,
                   rmDepth, rmWindow, stop>>
    /\ UNCHANGED rmOut
    /\ UNCHANGED nonRmVars

\* search<Root> has returned: the new best move is sorted to the front of
\* rootMoves[pvIdx .. pvLast-1], then the window is widened and the search
\* repeated after a fail low or a fail high
RmAspiration ==
    /\ rmPc = "sort"
    /\ rootMoves' = StableSort(rootMoves, pvIdx, pvLast)
    /\ IF stop
       THEN /\ rmPc' = "sort_pv"
            /\ UNCHANGED <<rmWindow, rmNode>>
       ELSE IF rmNode.bestValue <= rmWindow.alpha
       THEN /\ rmWindow' = FailLowWindow(rmWindow, rmNode.bestValue)
            /\ rmNode' = [alpha |-> FailLowWindow(rmWindow, rmNode.bestValue).alpha,
                          bestValue |-> -VALUE_INFINITE]
            /\ rmPc' = "search"
       ELSE IF rmNode.bestValue >= rmWindow.beta
       THEN /\ rmWindow' = FailHighWindow(rmWindow, rmNode.bestValue)
            /\ rmNode' = [alpha |-> rmWindow.alpha, bestValue |-> -VALUE_INFINITE]
            /\ rmPc' = "search"
       ELSE /\ rmPc' = "sort_pv"
            /\ UNCHANGED <<rmWindow, rmNode>>
    /\ rmSearched' = {}
    /\ UNCHANGED <<pvIdx, pvFirst, pvLast, multiPV, skillEnabled, skillBest,
                   rmDepth, stop>>
    /\ UNCHANGED rmOut
    /\ UNCHANGED nonRmVars

\* the PV lines searched so far are sorted; the MultiPV loop steps on
RmSortPv ==
    /\ rmPc = "sort_pv"
    /\ rootMoves' = StableSort(rootMoves, pvFirst, pvIdx + 1)
    /\ pvIdx' = pvIdx + 1
    /\ rmPc' = "pv"
    /\ UNCHANGED <<pvFirst, pvLast, multiPV, skillEnabled, skillBest, rmDepth,
                   rmSearched, rmWindow, rmNode, stop>>
    /\ UNCHANGED rmOut
    /\ UNCHANGED nonRmVars

\* the end of an iteration: when it is time to pick, Skill::pick_best chooses
\* one of the first multiPV moves by a random rule
RmIterEnd ==
    /\ rmPc = "iter_end"
    /\ \E timeToPick \in BOOLEAN, i \in 0 .. (multiPV - 1) :
          skillBest' = IF skillEnabled /\ timeToPick THEN rootMoves[i].mv
                       ELSE skillBest
    /\ rmPc' = "id"
    /\ UNCHANGED <<rootMoves, pvIdx, pvFirst, pvLast, multiPV, skillEnabled,
                   rmDepth, rmSearched, rmWindow, rmNode, stop>>
    /\ UNCHANGED rmOut
    /\ UNCHANGED nonRmVars

\* after the loop: with skill enabled the best line is swapped with the
\* picked one; then MainThread::search prints rootMoves[0] as the bestmove
RmExit ==
    /\ rmPc = "exit"
    /\ IF skillEnabled
       THEN \E i \in 0 .. (multiPV - 1) :
               LET best == IF skillBest # MOVE_NONE THEN skillBest
                           ELSE rootMoves[i].mv
               IN /\ skillBest' = best
                  /\ rootMoves' = SwapFront(rootMoves,
                        CHOOSE j \in DOMAIN rootMoves : rootMoves[j].mv = best)
       ELSE UNCHANGED <<rootMoves, skillBest>>
    /\ rmPc' = "done"
    /\ UNCHANGED <<pvIdx, pvFirst, pvLast, multiPV, skillEnabled, rmDepth,
                   rmSearched, rmWindow, rmNode, stop>>
    /\ UNCHANGED rmOut
    /\ UNCHANGED nonRmVars

\* RootMove::extract_ponder_from_tt: the move of the table entry of the
\* position after pv[0] is appended to the pv when it is legal there
ExtractPonderUnguarded(mv, hit, m) ==
    IF hit /\ m \in LegalReplies THEN m ELSE MOVE_NONE

ExtractPonderFromTT(mv, hit, m) ==
    IF mv # MOVE_NONE /\ hit /\ m \in LegalReplies THEN m ELSE MOVE_NONE

\* the end of MainThread::search: with one thread the best thread is this
\* one, and the bestmove line is printed from rootMoves[0].pv, whose second
\* move the search left there or extract_ponder_from_tt takes from the table
RmPrintBest ==
    /\ rmPc = "done"
    /\ \E pvSize \in 1 .. 2, reply \in LegalReplies, hit \in BOOLEAN,
          m \in TTMoveSamples :
          /\ pvSize > 1 => searchStarted
          /\ bestLine' =
                [mv |-> rootMoves[0].mv,
                 ponder |-> IF pvSize > 1 THEN reply
                            ELSE ExtractPonderFromTT(rootMoves[0].mv, hit, m),
                 printed |-> TRUE]
    /\ rmPc' = "printed"
    /\ UNCHANGED <<rootMoves, pvIdx, pvFirst, pvLast, multiPV, skillEnabled,
                   skillBest, rmDepth, rmSearched, rmWindow, rmNode, stop,
                   rootInCheck, infoLines, searchStarted>>
    /\ UNCHANGED nonRmVars

(***************************************************************************)
(* The frames of search and qsearch of one worker (search.cpp).  A frame   *)
(* is a record; the stack holds the open frames, the caller below its      *)
(* callee.  What a frame reads from the position (draws, checks, the       *)
(* static evaluation, table hits, the moves) is an input of the step that  *)
(* reads it.  The frame at height MaxStack calls no child: it stands for a *)
(* position that is drawn, in check without a legal move, or quiet.        *)
(***************************************************************************)
PawnValue == 208

mate_in(ply) == VALUE_MATE - ply
mated_in(ply) == -VALUE_MATE + ply

\* value_draw(thisThread), from the worker's node counter
ValueDrawZero(n) == VALUE_DRAW
value_draw(n) == VALUE_DRAW - 1 + 2 * ((n \div 2) % 2)

to_static_eval(v) ==
    Max(VALUE_TB_LOSS_IN_MAX_PLY + 1, Min(v, VALUE_TB_WIN_IN_MAX_PLY - 1))

stat_bonus(d) == Max(0, Min(245 * d - 320, 1296))
stat_malus(d) == IF d < 4 THEN 554 * d - 303 ELSE 1203

\* static evaluations, already corrected and clamped by to_static_eval
EvalSamples == {to_static_eval(v) : v \in {-VALUE_INFINITE, 0, 250}}

\* values a table entry hands to a node
TTValueSamples == {-600, 250}

\* the table values of a singular move: the least value the guard of the
\* singular extension lets through besides
SingularValueSamples == TTValueSamples \cup {-VALUE_TB_WIN_IN_MAX_PLY + 1}

\* averageScore of the root move the aspiration loop starts from
RootAvgSamples == {-VALUE_INFINITE, 200}

\* the depth search<Root> is called with
RootDepthSamples == {1, 6}

\* thisThread->pvIdx: the first MultiPV line, or a later one
RootLineSamples == {0, 1}

\* the nodes below the root at which the model takes up a search: their
\* remaining depth and their ply
InnerDepthSamples == {0, 5, 16}
InnerPlySamples == {1, MAX_PLY - 1}

\* the reduction r of a move, before it is applied
ReductionSamples == {-1, 2, 4}

\* PieceValue of the piece on the target square: none, or a pawn
PieceValueSamples == {VALUE_ZERO, PawnValue}

\* the windows of the call sites
RazorWindow(alpha) == [alpha |-> alpha - 1, beta |-> alpha]
NullWindow(beta) == [alpha |-> -beta, beta |-> -beta + 1]
ProbCutWindow(probCutBeta) ==
    [alpha |-> -probCutBeta, beta |-> -probCutBeta + 1]
VerifyWindow(beta) == [alpha |-> beta - 1, beta |-> beta]
SingularWindow(singularBeta) ==
    [alpha |-> singularBeta - 1, beta |-> singularBeta]
ZeroWindowSwapped(alpha) == [alpha |-> -alpha, beta |-> -(alpha + 1)]
ZeroWindow(alpha) == [alpha |-> -(alpha + 1), beta |-> -alpha]
PvWindow(alpha, beta) == [alpha |-> -beta, beta |-> -alpha]

\* a frame at its entry
Frame(fn, nt, w, depth, ply, excludedMove) ==
    [fn |-> fn, nt |-> nt, alpha |-> w.alpha, beta |-> w.beta,
     alphaEntry |-> w.alpha, depth |-> depth, ply |-> ply,
     excludedMove |-> excludedMove, pc |-> "entry", inCheck |-> FALSE,
     eval |-> VALUE_NONE, bestValue |-> -VALUE_INFINITE,
     maxValue |-> VALUE_INFINITE, moveCount |-> 0, legal |-> FALSE,
     newDepth |-> 0, d |-> 0, value |-> -VALUE_INFINITE,
     probCutBeta |-> VALUE_NONE, ttValue |-> VALUE_NONE,
     singularBeta |-> VALUE_NONE, futilityBase |-> -VALUE_INFINITE,
     via |-> "none"]

NoRet ==
    [val |-> VALUE_NONE, why |-> "none", fn |-> "none", nt |-> "none",
     ply |-> 0, inCheck |-> FALSE, alphaEntry |-> VALUE_NONE,
     alpha |-> VALUE_NONE, beta |-> VALUE_NONE, via |-> "none", bonus |-> 0]

NoRoot == [rootDepth |-> 0, failedHighCnt |-> 0, pvIdx |-> 0]

SrIdle ==
    /\ srPc = "idle"
    /\ stack = <<>>
    /\ srRet = NoRet
    /\ srWindow = NoWindow
    /\ srResearch = 0
    /\ srRoot = NoRoot
    /\ srNodes = 0
    /\ stopSeen = FALSE
    /\ lateWrite = "none"
    /\ rootUpdate = "none"
    /\ guardedSaves = {}

\* a worker about to search, some nodes into its search
SrInit ==
    /\ srPc = "start"
    /\ stack = <<>>
    /\ srRet = NoRet
    /\ srWindow = NoWindow
    /\ srResearch = 0
    /\ srRoot = NoRoot
    /\ srNodes \in {0, 2}
    /\ stopSeen = FALSE
    /\ lateWrite = "none"
    /\ rootUpdate = "none"
    /\ guardedSaves = {}

Top == stack[Len(stack)]
Below == SubSeq(stack, 1, Len(stack) - 1)
CanCall == Len(stack) < MaxStack
PvNode(f) == f.nt # "NonPV"
Running(fn, pc) ==
    /\ srPc = "run"
    /\ stack # <<>>
    /\ Top.fn = fn
    /\ Top.pc = pc

\* what a step does besides moving its frame: the node counter after it,
\* whether it read the stop flag as set, and the table it wrote to
\* a frame that saved its entry at every site
SavesOwnEntryAlways(f, site) ==
    site \in {"experience_tt", "tb_tt", "static_eval", "probcut_tt", "node_end"}

\* whether a search frame that has come to the site saves the table entry of
\* its own position there; at the end of the node this is the guard of the
\* final store
SavesOwnEntry(f, site) ==
    \/ site \in {"experience_tt", "tb_tt", "static_eval", "probcut_tt"}
    \/ /\ site = "node_end"
       /\ ~f.excludedMove
       /\ ~(f.nt = "Root" /\ srRoot.pvIdx > 0)

\* the frames whose saves are recorded
Guarded(f) ==
    /\ f.fn = "search"
    /\ f.excludedMove \/ (f.nt = "Root" /\ srRoot.pvIdx > 0)

\* rm tells whether the step updates the rootMoves entry of its move
EffectsAtRoot(n, seen, site, rm) ==
    /\ guardedSaves' =
          IF Guarded(Top) /\ SavesOwnEntry(Top, site)
          THEN guardedSaves \cup {[site |-> site,
                                   excludedMove |-> Top.excludedMove,
                                   root |-> Top.nt = "Root"]}
          ELSE guardedSaves
    /\ srNodes' = n
    /\ stopSeen' = (stopSeen \/ seen)
    /\ lateWrite' = IF site # "none" /\ stopSeen /\ lateWrite = "none"
                    THEN site ELSE lateWrite
    /\ rootUpdate' = IF ~rm THEN rootUpdate
                     ELSE IF stopSeen \/ seen THEN "untrusted" ELSE "trusted"
    /\ UNCHANGED <<stop, srWindow, srResearch, srRoot>>
    /\ UNCHANGED nonSrVars

Effects(n, seen, site) == EffectsAtRoot(n, seen, site, FALSE)

NoEffects == Effects(srNodes, FALSE, "none")
Wrote(site) == Effects(srNodes, FALSE, site)

\* the frame goes on as g
Continue(g) ==
    /\ stack' = Append(Below, g)
    /\ srRet' = NoRet
    /\ UNCHANGED srPc

\* the frame, now g, calls a child and waits for it
Call(g, child) ==
    /\ stack' = Append(Append(Below, g), child)
    /\ srRet' = NoRet
    /\ UNCHANGED srPc

\* the frame f returns v with bonus added by Variety
ReturnWith(f, v, why, bonus) ==
    /\ stack' = Below
    /\ srRet' = [val |-> v, why |-> why, fn |-> f.fn, nt |-> f.nt,
                 ply |-> f.ply, inCheck |-> f.inCheck,
                 alphaEntry |-> f.alphaEntry, alpha |-> f.alpha,
                 beta |-> f.beta, via |-> f.via, bonus |-> bonus]
    /\ srPc' = IF Len(stack) > 1 THEN srPc
               ELSE IF f.nt = "Root" THEN "asp" ELSE "done"

Return(f, v, why) == ReturnWith(f, v, why, 0)

\* Threads.stop = true, by the controller or by check_time
SrStop ==
    /\ srPc = "run"
    /\ ~stop
    /\ stop' = TRUE
    /\ UNCHANGED srVars
    /\ UNCHANGED nonSrVars

\* Thread::search enters its aspiration loop and calls search<Root>
SrStartRoot ==
    /\ srPc = "start"
    /\ \E avg \in RootAvgSamples, depth \in RootDepthSamples,
          line \in RootLineSamples :
          LET w == AspirationWindow(avg)
          IN /\ srWindow' = w
             /\ srRoot' = [rootDepth |-> depth, failedHighCnt |-> 0,
                           pvIdx |-> line]
             /\ stack' = <<Frame("search", "Root", w, depth, 0, FALSE)>>
    /\ srPc' = "run"
    /\ UNCHANGED <<srRet, srResearch, srNodes, stopSeen, lateWrite, rootUpdate,
                   guardedSaves, stop>>
    /\ UNCHANGED nonSrVars

\* a search in progress: one of its nodes below the root, a child of a
\* node with an aspiration window by its first or by a later move, or the
\* singular extension search of such a node
SrStartInner ==
    /\ srPc = "start"
    /\ \E avg \in RootAvgSamples, depth \in InnerDepthSamples,
          ply \in InnerPlySamples, nt \in {"PV", "NonPV"},
          excludedMove \in BOOLEAN :
          LET w == AspirationWindow(avg)
              cw == IF nt = "PV" THEN PvWindow(w.alpha, w.beta)
                    ELSE ZeroWindow(w.alpha)
          IN /\ excludedMove => nt = "NonPV" /\ depth > 0
             /\ stack' = <<Frame("search", nt, cw, depth, ply, excludedMove)>>
    /\ srPc' = "run"
    /\ UNCHANGED <<srRet, srWindow, srResearch, srRoot, srNodes, stopSeen,
                   lateWrite, rootUpdate, guardedSaves, stop>>
    /\ UNCHANGED nonSrVars

\* the aspiration loop after search<Root> has returned
SrAspiration ==
    /\ srPc = "asp"
    /\ LET bestValue == srRet.val
           low == FailLowWindow(srWindow, bestValue)
           high == FailHighWindow(srWindow, bestValue)
           again(w, cnt) ==
               /\ srResearch < MaxResearch
               /\ srWindow' = w
               /\ srRoot' = [srRoot EXCEPT !.failedHighCnt = cnt]
               /\ srResearch' = srResearch + 1
               /\ stack' = <<Frame("search", "Root", w,
                                   Max(1, srRoot.rootDepth - cnt), 0, FALSE)>>
               /\ srPc' = "run"
           done ==
               /\ srPc' = "done"
               /\ UNCHANGED <<stack, srWindow, srRoot, srResearch>>
       IN IF stop THEN done
          ELSE IF bestValue <= srWindow.alpha THEN again(low, 0)
          ELSE IF bestValue >= srWindow.beta
          THEN again(high, srRoot.failedHighCnt + 1)
          ELSE done
    /\ srRet' = NoRet
    /\ UNCHANGED <<srNodes, stopSeen, lateWrite, rootUpdate, guardedSaves,
                   stop>>
    /\ UNCHANGED nonSrVars

\* search: from its entry to mate distance pruning
SearchEntry ==
    /\ Running("search", "entry")
    /\ LET f == Top
       IN IF f.depth <= 0
          THEN /\ Continue(Frame("qsearch",
                                 IF PvNode(f) THEN "PV" ELSE "NonPV",
                                 [alpha |-> f.alpha, beta |-> f.beta],
                                 0, f.ply, FALSE))
               /\ NoEffects
          ELSE \E cycle \in BOOLEAN, draw \in BOOLEAN, inCheck \in BOOLEAN,
                  ev \in EvalSamples :
                  LET a1 == IF f.nt # "Root" /\ f.alpha < VALUE_DRAW /\ cycle
                            THEN value_draw(srNodes) ELSE f.alpha
                      a2 == Max(mated_in(f.ply), a1)
                      b2 == Min(mate_in(f.ply + 1), f.beta)
                      g == [f EXCEPT !.inCheck = inCheck]
                  IN IF a1 >= f.beta
                     THEN /\ Return(g, a1, "cycle")
                          /\ NoEffects
                     ELSE IF f.nt = "Root"
                     THEN /\ Continue([g EXCEPT !.pc = "probe"])
                          /\ NoEffects
                     ELSE IF stop \/ draw \/ f.ply >= MAX_PLY
                     THEN /\ Return(g,
                                    IF f.ply >= MAX_PLY /\ ~inCheck THEN ev
                                    ELSE value_draw(srNodes),
                                    IF stop THEN "stop_entry" ELSE "draw")
                          /\ Effects(srNodes, stop, "none")
                     ELSE IF a2 >= b2
                     THEN /\ Return(g, a2, "mate_distance")
                          /\ NoEffects
                     ELSE /\ CanCall \/ inCheck
                          /\ Continue([g EXCEPT !.alpha = a2, !.beta = b2,
                                                !.pc = "probe"])
                          /\ NoEffects

\* search: the table lookup with its cutoff, and the tablebase probe
SearchProbe ==
    /\ Running("search", "probe")
    /\ LET f == Top
           next == [f EXCEPT !.pc = "eval"]
       IN \/ /\ Continue(next)
             /\ NoEffects
          \/ /\ ~f.excludedMove
             /\ Continue(next)
             /\ Wrote("experience_tt")
          \/ /\ f.nt = "NonPV"
             /\ ~f.excludedMove
             /\ \E ttValue \in TTValueSamples :
                   Return(f,
                          IF ttValue >= f.beta
                             /\ Abs(ttValue) < VALUE_TB_WIN_IN_MAX_PLY
                          THEN CDiv(ttValue * 3 + f.beta, 4) ELSE ttValue,
                          "tt")
             /\ Wrote("tt_cutoff_history")
          \/ /\ f.nt # "Root"
             /\ ~f.excludedMove
             /\ \E wdl \in -2 .. 2, drawScore \in 0 .. 1 :
                   LET tbValue == VALUE_TB - f.ply
                       value == IF wdl < -drawScore THEN -tbValue
                                ELSE IF wdl > drawScore THEN tbValue
                                ELSE VALUE_DRAW + 2 * wdl * drawScore
                       b == IF wdl < -drawScore THEN BOUND_UPPER
                            ELSE IF wdl > drawScore THEN BOUND_LOWER
                            ELSE BOUND_EXACT
                   IN IF b = BOUND_EXACT
                         \/ (IF b = BOUND_LOWER THEN value >= f.beta
                             ELSE value <= f.alpha)
                      THEN /\ Return(f, value, "tb")
                           /\ Wrote("tb_tt")
                      ELSE IF ~PvNode(f)
                      THEN /\ Continue(next)
                           /\ NoEffects
                      ELSE IF b = BOUND_LOWER
                      THEN /\ Continue([next EXCEPT
                                          !.bestValue = value,
                                          !.alpha = Max(f.alpha, value)])
                           /\ NoEffects
                      ELSE /\ Continue([next EXCEPT !.maxValue = value])
                           /\ NoEffects

\* the frame at the label moves_loop
MovesLoop(f) ==
    [f EXCEPT !.pc = "moves", !.moveCount = 0, !.eval = VALUE_NONE,
              !.probCutBeta = VALUE_NONE, !.value = -VALUE_INFINITE]

\* search: the static evaluation, the in-check ProbCut idea and razoring
SearchStaticEval ==
    /\ Running("search", "eval")
    /\ LET f == Top
       IN IF f.inCheck
          THEN \/ /\ Continue(MovesLoop(f))
                  /\ NoEffects
               \/ /\ f.nt = "NonPV"
                  /\ f.beta # 0
                  /\ \E ttValue \in TTValueSamples :
                        /\ ttValue >= f.beta + 409
                        /\ Abs(ttValue) < VALUE_TB_WIN_IN_MAX_PLY
                  /\ Return(f, f.beta + 409, "probcut_in_check")
                  /\ NoEffects
          ELSE \E eval \in EvalSamples, c \in 0 .. 1 :
                  LET g == [f EXCEPT !.eval = eval]
                  IN /\ IF eval < f.alpha - 488
                                  - (289 - 142 * c) * f.depth * f.depth
                        THEN Call([g EXCEPT !.pc = "razor_wait"],
                                  Frame("qsearch", "NonPV",
                                        RazorWindow(f.alpha), 0, f.ply, FALSE))
                        ELSE Continue([g EXCEPT !.pc = "futility"])
                     /\ IF f.excludedMove THEN NoEffects
                        ELSE Wrote("static_eval")

\* search: razoring, after its qsearch
AfterRazoring ==
    /\ Running("search", "razor_wait")
    /\ srRet # NoRet
    /\ LET f == Top
           value == srRet.val
       IN IF value < f.alpha
          THEN Return(f, value, "razor")
          ELSE Continue([f EXCEPT !.pc = "futility"])
    /\ NoEffects

\* Depth R of the null move search
NullReduction(eval, beta, depth) ==
    Min(CDiv(eval - beta, 144), 6) + depth \div 3 + 4

\* search: futility pruning of the node, and the null move
SearchFutility ==
    /\ Running("search", "futility")
    /\ LET f == Top
       IN \/ /\ f.nt = "NonPV"
             /\ f.depth < 12
             /\ f.eval >= f.beta
             /\ f.eval < 30016
             /\ Return(f, IF f.beta > VALUE_TB_LOSS_IN_MAX_PLY
                          THEN CDiv(f.eval + f.beta, 2) ELSE f.eval,
                       "futility")
             /\ NoEffects
          \/ /\ f.nt = "NonPV"
             /\ f.eval >= f.beta
             /\ f.eval >= f.beta - 20 * f.depth + 314
             /\ ~f.excludedMove
             /\ f.beta > VALUE_TB_LOSS_IN_MAX_PLY
             /\ Call([f EXCEPT !.pc = "null_wait"],
                     Frame("search", "NonPV", NullWindow(f.beta),
                           f.depth - NullReduction(f.eval, f.beta, f.depth),
                           f.ply + 1, FALSE))
             /\ NoEffects
          \/ /\ Continue([f EXCEPT !.pc = "iir"])
             /\ NoEffects

\* search: the null move, after its search
AfterNullMove ==
    /\ Running("search", "null_wait")
    /\ srRet # NoRet
    /\ LET f == Top
           nullValue == -srRet.val
           R == NullReduction(f.eval, f.beta, f.depth)
       IN IF nullValue >= f.beta /\ nullValue < VALUE_TB_WIN_IN_MAX_PLY
          THEN \/ /\ f.depth >= 16
                  /\ Call([f EXCEPT !.pc = "verify_wait",
                                    !.value = nullValue],
                          Frame("search", "NonPV", VerifyWindow(f.beta),
                                f.depth - R, f.ply, FALSE))
               \/ Return(f, nullValue, "null")
          ELSE Continue([f EXCEPT !.pc = "iir"])
    /\ NoEffects

\* search: the null move, after its verification search
AfterVerification ==
    /\ Running("search", "verify_wait")
    /\ srRet # NoRet
    /\ LET f == Top
           v == srRet.val
       IN IF v >= f.beta
          THEN Return(f, f.value, "null")
          ELSE Continue([f EXCEPT !.pc = "iir", !.value = -VALUE_INFINITE])
    /\ NoEffects

\* search: internal iterative reductions and the guard of ProbCut
SearchIIR ==
    /\ Running("search", "iir")
    /\ LET f == Top
       IN \E noTtMove \in BOOLEAN, deep \in 0 .. 1, c \in 0 .. 1,
             improving \in 0 .. 1, cutNode \in BOOLEAN, attempt \in BOOLEAN :
             LET d1 == IF f.nt = "PV" /\ noTtMove
                       THEN f.depth - (2 + 2 * deep
                                         + 2 * (IF c = 1 /\ f.depth < 5
                                                THEN 1 ELSE 0))
                       ELSE f.depth
                 d2 == IF f.nt = "NonPV" /\ cutNode /\ d1 >= 6 /\ noTtMove
                       THEN d1 - 2 ELSE d1
                 probCutBeta == f.beta + 170 - 64 * improving + 150 * c
                 g == [f EXCEPT !.depth = d2, !.probCutBeta = probCutBeta]
             IN IF d1 <= 0
                THEN Continue(Frame("qsearch", "PV",
                                    [alpha |-> f.alpha, beta |-> f.beta],
                                    0, f.ply, FALSE))
                ELSE IF /\ f.nt = "NonPV"
                        /\ d2 > 3
                        /\ Abs(f.beta) < VALUE_TB_WIN_IN_MAX_PLY
                        /\ attempt
                THEN Continue([g EXCEPT !.pc = "probcut"])
                ELSE Continue(MovesLoop(g))
    /\ NoEffects

\* search: ProbCut takes its next capture, or has none left
SearchProbCut ==
    /\ Running("search", "probcut")
    /\ LET f == Top
       IN \/ /\ Continue(MovesLoop(f))
             /\ NoEffects
          \/ /\ f.moveCount < MaxMoves
             /\ Call([f EXCEPT !.pc = "probcut_qs_wait",
                               !.moveCount = f.moveCount + 1,
                               !.legal = TRUE],
                     Frame("qsearch", "NonPV", ProbCutWindow(f.probCutBeta),
                           0, f.ply + 1, FALSE))
             /\ Effects((srNodes + 1) % 4, FALSE, "none")

\* search: ProbCut, after the qsearch of a capture
AfterProbCutQs ==
    /\ Running("search", "probcut_qs_wait")
    /\ srRet # NoRet
    /\ LET f == Top
           value == -srRet.val
       IN IF value >= f.probCutBeta
          THEN Call([f EXCEPT !.pc = "probcut_wait"],
                    Frame("search", "NonPV", ProbCutWindow(f.probCutBeta),
                          f.depth - 4, f.ply + 1, FALSE))
          ELSE Continue([f EXCEPT !.pc = "probcut"])
    /\ NoEffects

\* search: ProbCut, after the search of a capture
AfterProbCut ==
    /\ Running("search", "probcut_wait")
    /\ srRet # NoRet
    /\ LET f == Top
           value == -srRet.val
       IN IF value >= f.probCutBeta
          THEN /\ Return(f, IF Abs(value) < VALUE_TB_WIN_IN_MAX_PLY
                            THEN value - (f.probCutBeta - f.beta) ELSE value,
                         "probcut")
               /\ Wrote("probcut_tt")
          ELSE /\ Continue([f EXCEPT !.pc = "probcut"])
               /\ NoEffects

\* a stop check that only the frames below the root make
StopAfterMoveBelowRoot(f) == stop /\ f.nt # "Root"

\* search, step 20: Threads.stop.load(std::memory_order_relaxed)
StopAfterMove(f) == stop

\* search, steps 19 and 20: the stop check after a move, then the update of
\* the root move and the new best value; site is the table the step has
\* written to before
PostMove(f, value, site) ==
    LET g == [f EXCEPT !.pc = "moves", !.newDepth = 0, !.d = 0]
    IN IF StopAfterMove(f)
       THEN /\ Return(f, VALUE_ZERO, "stop_move")
            /\ Effects(srNodes, TRUE, site)
       ELSE /\ EffectsAtRoot(srNodes, FALSE, site, f.nt = "Root")
            /\ IF value <= f.bestValue THEN Continue(g)
               ELSE IF value <= f.alpha
               THEN Continue([g EXCEPT !.bestValue = value])
               ELSE IF value >= f.beta
               THEN Continue([g EXCEPT !.pc = "end", !.bestValue = value])
               ELSE \E ttPv \in 0 .. 1 :
                       /\ PvNode(f) => ttPv = 1
                       /\ Continue([g EXCEPT
                             !.bestValue = value, !.alpha = value,
                             !.depth = IF /\ f.depth > 2
                                          /\ f.depth < 12
                                          /\ f.beta < 14206
                                          /\ value > -12077
                                       THEN f.depth - (1 + ttPv)
                                       ELSE f.depth])

\* search: the PV search of a move, where one is due, before step 19
PvOrPost(f, value, site) ==
    IF PvNode(f) /\ (f.moveCount = 1 \/ value > f.alpha)
    THEN /\ Call([f EXCEPT !.pc = "pv_wait"],
                 Frame("search", "PV", PvWindow(f.alpha, f.beta), f.newDepth,
                       f.ply + 1, FALSE))
         /\ Wrote(site)
    ELSE PostMove(f, value, site)

\* search: the move loop takes its next move, or has none left
SearchMove ==
    /\ Running("search", "moves")
    /\ LET f == Top
           g == [f EXCEPT !.moveCount = f.moveCount + 1, !.legal = TRUE,
                          !.newDepth = f.depth - 1]
       IN \/ /\ f.moveCount = 0 => f.nt # "Root" /\ (~f.legal \/ f.excludedMove)
             /\ Continue([f EXCEPT !.pc = "end"])
             /\ NoEffects
          \/ /\ f.moveCount < MaxMoves
             /\ f.nt # "Root"
             /\ f.bestValue > VALUE_TB_LOSS_IN_MAX_PLY
             /\ Continue(g)
             /\ NoEffects
          \/ /\ f.moveCount = 0
             /\ CanCall
             /\ f.nt # "Root"
             /\ ~f.excludedMove
             /\ \E ttValue \in SingularValueSamples, ttPv \in 0 .. 1,
                   completed \in 0 .. 1 :
                   LET singularBeta ==
                           ttValue - CDiv((58 + 58 * (IF PvNode(f) THEN 0
                                                      ELSE ttPv)) * f.depth, 64)
                   IN /\ PvNode(f) => ttPv = 1
                      /\ f.depth >= 4 - completed + ttPv
                      /\ Abs(ttValue) < VALUE_TB_WIN_IN_MAX_PLY
                      /\ Call([g EXCEPT !.pc = "singular_wait",
                                        !.ttValue = ttValue,
                                        !.singularBeta = singularBeta],
                              Frame("search", "NonPV",
                                    SingularWindow(singularBeta),
                                    CDiv(g.newDepth, 2), f.ply, TRUE))
             /\ NoEffects
          \/ /\ f.moveCount < MaxMoves
             /\ CanCall
             /\ Continue([g EXCEPT !.pc = "make"])
             /\ NoEffects

\* search: the singular extension, after its search
AfterSingular ==
    /\ Running("search", "singular_wait")
    /\ srRet # NoRet
    /\ LET f == Top
           value == srRet.val
           go(extension, depth) ==
               Continue([f EXCEPT !.pc = "make", !.depth = depth,
                                  !.newDepth = f.newDepth + extension,
                                  !.ttValue = VALUE_NONE,
                                  !.singularBeta = VALUE_NONE])
       IN \E few \in BOOLEAN, ttCapture \in BOOLEAN, cutNode \in BOOLEAN :
             IF value < f.singularBeta
             THEN IF ~PvNode(f) /\ few
                  THEN go(2 + (IF value < f.singularBeta - 22 /\ ~ttCapture
                               THEN 1 ELSE 0),
                          f.depth + (IF f.depth < 14 THEN 1 ELSE 0))
                  ELSE IF /\ PvNode(f)
                          /\ ~ttCapture
                          /\ few
                          /\ value < f.singularBeta - 37
                  THEN go(2, f.depth)
                  ELSE go(1, f.depth)
             ELSE IF f.singularBeta >= f.beta
             THEN Return(f, f.singularBeta, "multi_cut")
             ELSE IF f.ttValue >= f.beta THEN go(-3, f.depth)
             ELSE IF cutNode /\ ~PvNode(f) THEN go(-2, f.depth)
             ELSE IF f.ttValue <= value THEN go(-1, f.depth)
             ELSE go(0, f.depth)
    /\ NoEffects

\* search, steps 16 to 18: the move is made and its first search is called
SearchMakeMove ==
    /\ Running("search", "make")
    /\ LET f == Top
       IN \E r \in ReductionSamples :
             LET d == Max(1, Min(f.newDepth - r, f.newDepth + 1))
                 child(nt, w, depth) ==
                     Frame("search", nt, w, depth, f.ply + 1, FALSE)
             IN IF f.depth >= 2
                   /\ f.moveCount > 1 + (IF f.nt = "Root" THEN 1 ELSE 0)
                THEN Call([f EXCEPT !.pc = "lmr_wait", !.d = d],
                          child("NonPV", ZeroWindow(f.alpha), d))
                ELSE IF ~PvNode(f) \/ f.moveCount > 1
                THEN Call([f EXCEPT !.pc = "full_wait"],
                          child("NonPV", ZeroWindow(f.alpha),
                                f.newDepth - (IF r > 3 THEN 1 ELSE 0)))
                ELSE Call([f EXCEPT !.pc = "pv_wait"],
                          child("PV", PvWindow(f.alpha, f.beta), f.newDepth))
    /\ Effects((srNodes + 1) % 4, FALSE, "none")

\* the table of the post-LMR continuation history update, if its bonus
\* changes an entry
LmrHistory(f, value, newDepth) ==
    LET bonus == IF value <= f.alpha THEN -stat_malus(newDepth)
                 ELSE IF value >= f.beta THEN stat_bonus(newDepth)
                 ELSE 0
    IN IF bonus # 0 THEN "lmr_continuation_history" ELSE "none"

\* search, step 17: after the reduced search of a late move
AfterLmr ==
    /\ Running("search", "lmr_wait")
    /\ srRet # NoRet
    /\ LET f == Top
           value == -srRet.val
           deeper == IF value > f.bestValue + 47 + 2 * f.newDepth
                     THEN 1 ELSE 0
           shallower == IF value < f.bestValue + f.newDepth THEN 1 ELSE 0
           newDepth == f.newDepth + deeper - shallower
           g == [f EXCEPT !.newDepth = newDepth]
       IN IF value > f.alpha /\ f.d < f.newDepth
          THEN IF newDepth > f.d
               THEN /\ Call([g EXCEPT !.pc = "lmr_research_wait"],
                            Frame("search", "NonPV", ZeroWindow(f.alpha),
                                  newDepth, f.ply + 1, FALSE))
                    /\ NoEffects
               ELSE PvOrPost(g, value, LmrHistory(f, value, newDepth))
          ELSE PvOrPost(f, value, "none")

\* search, step 17: after the full-depth search that follows a reduced one
AfterLmrResearch ==
    /\ Running("search", "lmr_research_wait")
    /\ srRet # NoRet
    /\ LET f == Top
           value == -srRet.val
       IN PvOrPost(f, value, LmrHistory(f, value, f.newDepth))

\* search, step 18: after the full-depth search of a move
AfterFullDepth ==
    /\ Running("search", "full_wait")
    /\ srRet # NoRet
    /\ PvOrPost(Top, -srRet.val, "none")

\* search: after the PV search of a move
AfterPvSearch ==
    /\ Running("search", "pv_wait")
    /\ srRet # NoRet
    /\ PostMove(Top, -srRet.val, "none")

\* search, step 21 to the end: mate and stalemate, the statistics and the
\* table entry of the node
SearchEnd ==
    /\ Running("search", "end")
    /\ LET f == Top
           high == IF /\ ~PvNode(f)
                      /\ f.bestValue >= f.beta
                      /\ Abs(f.bestValue) < VALUE_TB_WIN_IN_MAX_PLY
                      /\ Abs(f.beta) < VALUE_TB_WIN_IN_MAX_PLY
                      /\ Abs(f.alpha) < VALUE_TB_WIN_IN_MAX_PLY
                   THEN CDiv(f.bestValue * (f.depth + 2) + f.beta, f.depth + 3)
                   ELSE f.bestValue
           none == IF f.excludedMove THEN f.alpha
                   ELSE IF f.inCheck THEN mated_in(f.ply)
                   ELSE VALUE_DRAW
           bestValue == IF f.moveCount = 0 THEN none ELSE high
       IN /\ Return(f, IF PvNode(f) THEN Min(bestValue, f.maxValue)
                       ELSE bestValue, "end")
          /\ IF f.excludedMove /\ f.moveCount = 0 THEN NoEffects
             ELSE Wrote("node_end")

\* qsearch: from its entry to stand pat
QsEntry ==
    /\ Running("qsearch", "entry")
    /\ LET f == Top
       IN \E cycle \in BOOLEAN, draw \in BOOLEAN, inCheck \in BOOLEAN,
             staticEval \in EvalSamples, hit \in BOOLEAN,
             ttValue \in TTValueSamples \cup {VALUE_NONE},
             cutoff \in BOOLEAN :
             LET a1 == IF f.alpha < VALUE_DRAW /\ cycle
                       THEN value_draw(srNodes) ELSE f.alpha
                 g == [f EXCEPT !.inCheck = inCheck, !.alpha = a1]
                 bestValue == IF hit /\ ttValue # VALUE_NONE THEN ttValue
                              ELSE staticEval
             IN /\ ~hit => ttValue = VALUE_NONE /\ ~cutoff
                /\ IF a1 >= f.beta
                   THEN /\ Return(g, a1, "cycle")
                        /\ NoEffects
                   ELSE IF draw \/ f.ply >= MAX_PLY
                   THEN /\ Return(g, IF f.ply >= MAX_PLY /\ ~inCheck
                                     THEN staticEval ELSE VALUE_DRAW, "draw")
                        /\ NoEffects
                   ELSE IF f.nt = "NonPV" /\ cutoff /\ ttValue # VALUE_NONE
                   THEN /\ Return(g, ttValue, "tt")
                        /\ NoEffects
                   ELSE IF inCheck
                   THEN /\ Continue([g EXCEPT !.pc = "moves"])
                        /\ NoEffects
                   ELSE IF bestValue >= f.beta
                   THEN /\ Return([g EXCEPT !.bestValue = bestValue],
                                  bestValue, "stand_pat")
                        /\ IF hit THEN NoEffects
                           ELSE Wrote("qsearch_stand_pat_tt")
                   ELSE /\ Continue([g EXCEPT
                              !.pc = "moves", !.bestValue = bestValue,
                              !.alpha = Max(a1, bestValue),
                              !.futilityBase = staticEval + 226])
                        /\ NoEffects

\* qsearch, step 6: bestValue after futility pruning has skipped the move
\* that is number moveCount and would reach futilityValue
FutilityBestValueBeta(f, moveCount, futilityValue) ==
    IF moveCount > 2 THEN f.bestValue
    ELSE IF futilityValue <= f.alpha THEN Max(f.bestValue, futilityValue)
    ELSE IF f.futilityBase <= f.alpha THEN Max(f.bestValue, f.futilityBase)
    ELSE f.beta
FutilityBestValue(f, moveCount, futilityValue) ==
    IF moveCount > 2 THEN f.bestValue
    ELSE IF futilityValue <= f.alpha THEN Max(f.bestValue, futilityValue)
    ELSE IF f.futilityBase <= f.alpha THEN Max(f.bestValue, f.futilityBase)
    ELSE f.alpha

\* qsearch, steps 5 to 7: the next move is pruned or searched, or none is
\* left
QsMove ==
    /\ Running("qsearch", "moves")
    /\ LET f == Top
           g == [f EXCEPT !.moveCount = f.moveCount + 1]
       IN \/ /\ Continue([f EXCEPT !.pc = "end"])
             /\ NoEffects
          \/ /\ f.moveCount < MaxMoves
             /\ f.bestValue > VALUE_TB_LOSS_IN_MAX_PLY
             /\ f.futilityBase > VALUE_TB_LOSS_IN_MAX_PLY
             /\ \E piece \in PieceValueSamples, see \in BOOLEAN :
                   LET futilityValue == f.futilityBase + piece
                       pruned == \/ g.moveCount > 2
                                 \/ futilityValue <= f.alpha
                                 \/ ~see
                       bestValue ==
                           FutilityBestValue(f, g.moveCount, futilityValue)
                   IN /\ pruned
                      /\ Continue([g EXCEPT
                            !.bestValue = bestValue,
                            !.via = IF bestValue # f.bestValue
                                    THEN "futility" ELSE f.via])
             /\ NoEffects
          \/ /\ f.moveCount < MaxMoves
             /\ f.bestValue > VALUE_TB_LOSS_IN_MAX_PLY
             /\ Continue(g)
             /\ NoEffects
          \/ /\ f.moveCount < MaxMoves
             /\ CanCall
             /\ Call([g EXCEPT !.pc = "child_wait"],
                     Frame("qsearch", f.nt, PvWindow(f.alpha, f.beta),
                           f.depth - 1, f.ply + 1, FALSE))
             /\ Effects((srNodes + 1) % 4, FALSE, "none")

\* qsearch, step 8: after the search of a move
AfterQsChild ==
    /\ Running("qsearch", "child_wait")
    /\ srRet # NoRet
    /\ LET f == Top
           value == -srRet.val
           g == [f EXCEPT !.pc = "moves"]
       IN IF value <= f.bestValue THEN Continue(g)
          ELSE IF value <= f.alpha
          THEN Continue([g EXCEPT !.bestValue = value, !.via = "move"])
          ELSE IF value < f.beta
          THEN Continue([g EXCEPT !.bestValue = value, !.via = "move",
                                  !.alpha = value])
          ELSE Continue([g EXCEPT !.bestValue = value, !.via = "move",
                                  !.pc = "end"])
    /\ NoEffects

\* qsearch after its move loop: the Variety bonus, mate, and the table entry
QsEnd ==
    /\ Running("qsearch", "end")
    /\ LET f == Top
       IN \E variety \in 0 .. MaxVariety, bonus \in 0 .. MaxVariety :
             LET bestValue == f.bestValue + bonus
             IN /\ bonus <= variety
                /\ bonus > 0 =>
                     f.bestValue + CDiv(variety * PawnValue, 100) >= 0
                /\ IF f.inCheck /\ bestValue = -VALUE_INFINITE
                   THEN /\ Return(f, mated_in(f.ply), "mate")
                        /\ NoEffects
                   ELSE /\ ReturnWith(
                             f,
                             IF /\ Abs(bestValue) < VALUE_TB_WIN_IN_MAX_PLY
                                /\ bestValue >= f.beta
                             THEN CDiv(3 * bestValue + f.beta, 4)
                             ELSE bestValue,
                             "end", bonus)
                        /\ Wrote("qsearch_tt")

(***************************************************************************)
(* One entry of the shared table, saved by some workers while another      *)
(* worker reads it (tt.h, search.cpp).  The fields of an entry are written *)
(* and read one by one, without a lock.                                    *)
(***************************************************************************)
Writers == 1 .. NumWriters

\* the key of the reader's position; the other keys of Keys fall into the
\* same cluster
ReaderKey == 1

NoArg == [key |-> 0, move |-> MOVE_NONE]

\* the moves saved with a key: moves of the reader's position with its key,
\* a move that is not legal there with another key
SavedMoves(k) ==
    IF k = ReaderKey THEN {MOVE_NONE} \cup LegalReplies
    ELSE {MOVE_NONE, TornMove}

RaceIdle ==
    /\ shEntry = NoArg
    /\ wrPc = [w \in Writers |-> "idle"]
    /\ wrArg = [w \in Writers |-> NoArg]
    /\ saves = 0
    /\ rdPc = "idle"
    /\ rdRole = "none"
    /\ rdHit = FALSE
    /\ rdMove = MOVE_NONE
    /\ usedHistory = {}
    /\ usedBoard = {}
    /\ usedPonder = {}

\* the entry is empty or holds an earlier save; the reader is a search frame
\* or the main thread looking for a ponder move
RaceInit ==
    /\ shEntry \in {NoArg} \cup
                   {[key |-> k, move |-> mv] : k \in Keys, mv \in TTMoveSamples}
    /\ shEntry.move \in SavedMoves(shEntry.key)
    /\ wrPc = [w \in Writers |-> "idle"]
    /\ wrArg = [w \in Writers |-> NoArg]
    /\ saves = 0
    /\ rdPc = "start"
    /\ rdRole \in {"search", "ponder"}
    /\ rdHit = FALSE
    /\ rdMove = MOVE_NONE
    /\ usedHistory = {}
    /\ usedBoard = {}
    /\ usedPonder = {}

rdVars == <<rdPc, rdRole, rdHit, rdMove, usedHistory, usedBoard, usedPonder>>

\* tte->save(posKey, ..., move, ...) is called by a writer
WrBegin(w) ==
    /\ rdRole # "none"
    /\ wrPc[w] = "idle"
    /\ saves < MaxSaves
    /\ \E k \in Keys : \E mv \in SavedMoves(k) :
          wrArg' = [wrArg EXCEPT ![w] = [key |-> k, move |-> mv]]
    /\ wrPc' = [wrPc EXCEPT ![w] = "move"]
    /\ saves' = saves + 1
    /\ UNCHANGED shEntry
    /\ UNCHANGED rdVars
    /\ UNCHANGED nonRaceVars

\* TTEntry::save: the move is kept when none is given for the same position
WrMove(w) ==
    /\ wrPc[w] = "move"
    /\ shEntry' = IF wrArg[w].move # MOVE_NONE \/ wrArg[w].key # shEntry.key
                  THEN [shEntry EXCEPT !.move = wrArg[w].move]
                  ELSE shEntry
    /\ wrPc' = [wrPc EXCEPT ![w] = "key"]
    /\ UNCHANGED <<wrArg, saves>>
    /\ UNCHANGED rdVars
    /\ UNCHANGED nonRaceVars

\* TTEntry::save: the key and the other fields are overwritten when the new
\* data is more valuable
WrKey(w) ==
    /\ wrPc[w] = "key"
    /\ \E over \in BOOLEAN :
          shEntry' = IF over \/ wrArg[w].key # shEntry.key
                     THEN [shEntry EXCEPT !.key = wrArg[w].key]
                     ELSE shEntry
    /\ wrPc' = [wrPc EXCEPT ![w] = "idle"]
    /\ UNCHANGED <<wrArg, saves>>
    /\ UNCHANGED rdVars
    /\ UNCHANGED nonRaceVars

wrVars == <<shEntry, wrPc, wrArg, saves>>

\* tte = TT.probe(posKey, ss->ttHit): the key of the entry is compared
RdProbe ==
    /\ rdPc = "start"
    /\ rdHit' = (shEntry.key = ReaderKey)
    /\ rdPc' = "probed"
    /\ UNCHANGED <<rdRole, rdMove, usedHistory, usedBoard, usedPonder>>
    /\ UNCHANGED wrVars
    /\ UNCHANGED nonRaceVars

\* ttMove = ss->ttHit ? tte->move() : Move::none()
RdMove ==
    /\ rdPc = "probed"
    /\ rdMove' = IF rdHit THEN shEntry.move ELSE MOVE_NONE
    /\ rdPc' = IF rdRole = "search" THEN "cutoff" ELSE "ponder"
    /\ UNCHANGED <<rdRole, rdHit, usedHistory, usedBoard, usedPonder>>
    /\ UNCHANGED wrVars
    /\ UNCHANGED nonRaceVars

\* search: the early cutoff at a non-PV node, with update_quiet_stats for a
\* quiet ttMove that fails high
RdCutoff ==
    /\ rdPc = "cutoff"
    /\ \E cut \in BOOLEAN, high \in BOOLEAN, ttCapture \in BOOLEAN,
          rule50 \in {0, 90} :
          /\ cut => rdHit
          /\ usedHistory' =
                IF cut /\ rdMove # MOVE_NONE /\ high /\ ~ttCapture
                THEN usedHistory \cup {rdMove} ELSE usedHistory
          /\ rdPc' = IF cut /\ rule50 < 90 THEN "done" ELSE "moves"
    /\ UNCHANGED <<rdRole, rdHit, rdMove, usedBoard, usedPonder>>
    /\ UNCHANGED wrVars
    /\ UNCHANGED nonRaceVars

\* search: the move loop, the MovePicker handing out ttMove first; each move
\* is made only after pos.legal(move), and the best move updates the
\* histories
RdMovesLoop ==
    /\ rdPc = "moves"
    /\ \E tried \in SUBSET ({rdMove} \cup LegalReplies) :
          LET made == {mv \in tried : mv \in LegalReplies}
          IN /\ usedBoard' = usedBoard \cup made
             /\ \E best \in made \cup {MOVE_NONE} :
                   usedHistory' = IF best # MOVE_NONE
                                  THEN usedHistory \cup {best}
                                  ELSE usedHistory
    /\ rdPc' = "done"
    /\ UNCHANGED <<rdRole, rdHit, rdMove, usedPonder>>
    /\ UNCHANGED wrVars
    /\ UNCHANGED nonRaceVars

\* RootMove::extract_ponder_from_tt after the probe
RdPonder ==
    /\ rdPc = "ponder"
    /\ \E best \in {MOVE_NONE, 1} :
          LET m == ExtractPonderFromTT(best, rdHit, rdMove)
          IN usedPonder' = IF m # MOVE_NONE THEN usedPonder \cup {m}
                           ELSE usedPonder
    /\ rdPc' = "done"
    /\ UNCHANGED <<rdRole, rdHit, rdMove, usedHistory, usedBoard>>
    /\ UNCHANGED wrVars
    /\ UNCHANGED nonRaceVars

(***************************************************************************)
(* perft (search.cpp).  A position is the sequence of moves made from the  *)
(* root; the legal moves of a position are numbered from 1.                *)
(***************************************************************************)
\* a move tree: the number of legal moves of the positions of a level, and
\* whether the position after the first move of that level has none (mate)
NoShape == [width |-> [l \in 1 .. MaxPerftDepth |-> 0],
            dead |-> [l \in 1 .. MaxPerftDepth |-> FALSE]]

Shapes == [width : [1 .. MaxPerftDepth -> 0 .. MaxBranch],
           dead : [1 .. MaxPerftDepth -> BOOLEAN]]

\* MoveList<LEGAL>(pos)
MoveList(shape, pos) ==
    IF Len(pos) >= MaxPerftDepth THEN {}
    ELSE IF pos # <<>> /\ pos[Len(pos)] = 1 /\ shape.dead[Len(pos)] THEN {}
    ELSE 1 .. shape.width[Len(pos) + 1]

\* pos.do_move(m, st) and pos.undo_move(m)
do_move(pos, m) == Append(pos, m)
undo_move(pos, m) == SubSeq(pos, 1, Len(pos) - 1)

\* a bulk count that takes every position for one leaf
BulkCountOne(shape, pos) == 1

\* MoveList<LEGAL>(pos).size(), the count of a position at depth 2
BulkCount(shape, pos) == Cardinality(MoveList(shape, pos))

RECURSIVE perft(_, _, _, _), PerftLoop(_, _, _, _, _, _)

\* the body of the loop of perft for the moves from m on; acc holds nodes and
\* the position as the moves before m have left it
PerftLoop(Root, shape, depth, last, m, acc) ==
    IF m > last THEN acc
    ELSE IF Root /\ depth <= 1
    THEN PerftLoop(Root, shape, depth, last, m + 1,
                   [acc EXCEPT !.nodes = @ + 1])
    ELSE LET p1 == do_move(acc.pos, m)
             sub == IF depth = 2
                    THEN [nodes |-> BulkCount(shape, p1), pos |-> p1]
                    ELSE perft(FALSE, shape, p1, depth - 1)
         IN PerftLoop(Root, shape, depth, last, m + 1,
                      [nodes |-> acc.nodes + sub.nodes,
                       pos |-> undo_move(sub.pos, m)])

\* perft<Root>(pos, depth): the nodes counted, and the position afterwards
perft(Root, shape, pos, depth) ==
    PerftLoop(Root, shape, depth, Cardinality(MoveList(shape, pos)), 1,
              [nodes |-> 0, pos |-> pos])

PfIdle ==
    /\ pfShape = NoShape
    /\ pfDepth = 0
    /\ pfPc = "idle"
    /\ pfPos = <<>>
    /\ pfNodes = 0

PfInit ==
    /\ pfShape \in Shapes
    /\ pfDepth \in 1 .. MaxPerftDepth
    /\ pfPc = "start"
    /\ pfPos = <<>>
    /\ pfNodes = 0

\* MainThread::search with Limits.perft: nodes = perft<true>(rootPos,
\* Limits.perft)
PfRun ==
    /\ pfPc = "start"
    /\ LET r == perft(TRUE, pfShape, pfPos, pfDepth)
       IN /\ pfNodes' = r.nodes
          /\ pfPos' = r.pos
    /\ pfPc' = "done"
    /\ UNCHANGED <<pfShape, pfDepth>>
    /\ UNCHANGED nonPfVars

(***************************************************************************)
(* Eval::evaluate (evaluate.cpp).  The position is given by what evaluate  *)
(* and the style helpers read from it, the networks by the pair (psqt,     *)
(* positional) each of them returns for the position.                      *)
(***************************************************************************)
Styles == {"Default", "Aggressive", "Defensive", "Positional"}

\* the range of the two strategy options, at its ends and its default
StrategyOffsets == {-12, 0, 12}

\* the initial position; a middlegame with developed pieces; an endgame a
\* rook up with an advanced pawn; a position a queen up
EvalPositions ==
    { [simpleEval |-> 0, minors |-> 8, rooks |-> 4, queens |-> 2,
       pawns |-> 16, nonPawnMaterial |-> 16604, developed |-> 0, central |-> 2,
       knightsNearKing |-> 0, advancedPawns |-> 0, isolatedPawns |-> 0,
       canCastle |-> TRUE, bishops |-> 2, rooksOnSeventh |-> 0, rule50 |-> 0],
      [simpleEval |-> 208, minors |-> 6, rooks |-> 4, queens |-> 2,
       pawns |-> 13, nonPawnMaterial |-> 14998, developed |-> 3, central |-> 1,
       knightsNearKing |-> 1, advancedPawns |-> 1, isolatedPawns |-> 1,
       canCastle |-> FALSE, bishops |-> 2, rooksOnSeventh |-> 0, rule50 |-> 3],
      [simpleEval |-> 1276, minors |-> 0, rooks |-> 1, queens |-> 0,
       pawns |-> 4, nonPawnMaterial |-> 1276, developed |-> 0, central |-> 0,
       knightsNearKing |-> 0, advancedPawns |-> 1, isolatedPawns |-> 2,
       canCastle |-> FALSE, bishops |-> 0, rooksOnSeventh |-> 1, rule50 |-> 40],
      [simpleEval |-> -2538, minors |-> 4, rooks |-> 4, queens |-> 1,
       pawns |-> 12, nonPawnMaterial |-> 10854, developed |-> 2, central |-> 2,
       knightsNearKing |-> 0, advancedPawns |-> 0, isolatedPawns |-> 0,
       canCastle |-> FALSE, bishops |-> 1, rooksOnSeventh |-> 0, rule50 |-> 0] }

\* what a network returns for a position
NetOutputs ==
    { [psqt |-> 120, positional |-> 110],
      [psqt |-> -30, positional |-> 95],
      [psqt |-> 700, positional |-> -150] }

OptimismSamples == {0, 114}

EvalInputs ==
    [style : Styles, dynamic : BOOLEAN,
     MaterialisticEvaluationStrategy : StrategyOffsets,
     PositionalEvaluationStrategy : StrategyOffsets,
     pos : EvalPositions, small : NetOutputs, big : NetOutputs,
     optimism : OptimismSamples]

NoEvalInput ==
    [style |-> "Default", dynamic |-> FALSE,
     MaterialisticEvaluationStrategy |-> 0, PositionalEvaluationStrategy |-> 0,
     pos |-> CHOOSE p \in EvalPositions : p.simpleEval = 0,
     small |-> CHOOSE n \in NetOutputs : n.psqt = 120,
     big |-> CHOOSE n \in NetOutputs : n.psqt = 120, optimism |-> 0]

\* use_smallnet
use_smallnet(pos) == Abs(pos.simpleEval) > 962

calculate_aggressiveness_bonus(pos) == 20 * pos.knightsNearKing

calculate_defensiveness_bonus(pos) ==
    -15 * pos.isolatedPawns + (IF pos.canCastle THEN 40 ELSE 0)

calculate_positional_bonus(pos) == 10 * pos.bishops + 15 * pos.rooksOnSeventh

calculate_hypnos_default_bonus(pos) == 10 * pos.developed + 5 * pos.central

\* evaluate: totalPhase - phase of the dynamic strategy
PhaseShift(pos) ==
    LET totalPhase == 24
        phase == totalPhase - 1 * pos.minors - 2 * pos.rooks - 4 * pos.queens
    IN totalPhase - Max(0, Min(totalPhase, phase))

\* evaluate: materialWeight
MaterialWeight(in) ==
    125 - (IF in.dynamic THEN PhaseShift(in.pos) ELSE 0)
        + in.MaterialisticEvaluationStrategy

\* evaluate: positionalWeight
PositionalWeight(in) ==
    131 + (IF in.dynamic THEN PhaseShift(in.pos) ELSE 0)
        + in.PositionalEvaluationStrategy

\* evaluate: the adjustment of nnue based on the style
StyleBonus(in) ==
    LET pos == in.pos
    IN CASE in.style = "Aggressive" ->
              calculate_aggressiveness_bonus(pos)
              + 20 * pos.knightsNearKing + 10 * pos.advancedPawns
         [] in.style = "Defensive" ->
              - calculate_aggressiveness_bonus(pos)
              + calculate_defensiveness_bonus(pos)
              - 15 * pos.isolatedPawns + (IF pos.canCastle THEN 40 ELSE 0)
         [] in.style = "Positional" ->
              calculate_positional_bonus(pos)
              + 10 * pos.bishops + 15 * pos.rooksOnSeventh
         [] in.style = "Default" -> calculate_hypnos_default_bonus(pos)

\* evaluate, from the mixing weights and the style adjustment on
EvaluateWith(in, materialWeight, positionalWeight, bonus) ==
    LET pos == in.pos
        smallNet == use_smallnet(pos)
        first == IF smallNet THEN in.small ELSE in.big
        mixed(out) == CDiv(materialWeight * out.psqt
                           + positionalWeight * out.positional, 128)
        styled == mixed(first) + bonus
        again == smallNet /\ Abs(styled) < 236
        out == IF again THEN in.big ELSE first
        nnue == IF again THEN mixed(in.big) ELSE styled
        nnueComplexity == Abs(out.psqt - out.positional)
        optimism == in.optimism + CDiv(in.optimism * nnueComplexity, 468)
        damped == nnue - CDiv(nnue * nnueComplexity, 18000)
        material == 535 * pos.pawns + pos.nonPawnMaterial
        v == CDiv(damped * (77777 + material) + optimism * (7777 + material),
                  77777)
        shuffled == v - CDiv(v * pos.rule50, 212)
    IN Max(VALUE_TB_LOSS_IN_MAX_PLY + 1,
           Min(VALUE_TB_WIN_IN_MAX_PLY - 1, shuffled))

\* Eval::evaluate
Evaluate(in) ==
    EvaluateWith(in, MaterialWeight(in), PositionalWeight(in), StyleBonus(in))

EvIdle ==
    /\ evPc = "idle"
    /\ evIn = NoEvalInput
    /\ evOut = VALUE_NONE

EvInit ==
    /\ evPc = "start"
    /\ evIn \in EvalInputs
    /\ evOut = VALUE_NONE

\* a call of Eval::evaluate
EvEvaluate ==
    /\ evPc = "start"
    /\ evOut' = Evaluate(evIn)
    /\ evPc' = "done"
    /\ UNCHANGED evIn
    /\ UNCHANGED nonEvVars

(***************************************************************************)
(* Skill::pick_best (search.cpp).  Two runs of the engine process are kept *)
(* side by side; each makes the picks of some earlier searches and then    *)
(* the pick of the same search (skScores, skLevel).  The generator is a    *)
(* function-local static: it is constructed from the clock by the first    *)
(* pick of the process and lives on from search to search.                 *)
(***************************************************************************)
Runs == {"A", "B"}

\* now() at the first pick of a process
ClockSamples == {1, 2, 3}

\* the scores of the multiPV = 4 best root moves, sorted
ScoreSamples == {<<50, 40, 10, -30>>, <<300, 20, 0, -10>>, <<0, 0, 0, 0>>}

LevelSamples == {0, 10, 19}

NotSeeded == 0

PrngModulus == 65537

\* PRNG::PRNG(seed)
PrngSeed(t) == t

\* PRNG::rand: the next state of the generator, which is also its output
PrngNext(s) == (75 * s + 74) % PrngModulus

\* a generator constructed anew at every pick
RngFromClock(rng, t) == PrngSeed(t)

\* static PRNG rng(now()): constructed when control first passes the declaration
RngAtPick(rng, t) == IF rng = NotSeeded THEN PrngSeed(t) ELSE rng

RECURSIVE PickLoop(_, _, _, _, _, _)
\* Skill::pick_best: the loop over the multiPV best moves, from move i on
PickLoop(scores, level, rng, i, maxScore, best) ==
    IF i > Len(scores) THEN [best |-> best, rng |-> rng]
    ELSE LET topScore == scores[1]
             delta == Min(topScore - scores[Len(scores)], PawnValue)
             weakness == 120 - 2 * level
             drawn == PrngNext(rng)
             push == (weakness * (topScore - scores[i])
                      + delta * (drawn % weakness)) \div 128
         IN IF scores[i] + push >= maxScore
            THEN PickLoop(scores, level, drawn, i + 1, scores[i] + push, i)
            ELSE PickLoop(scores, level, drawn, i + 1, maxScore, best)

\* Skill::pick_best; a move is named by its rank among the root moves
pick_best(scores, level, rng) ==
    PickLoop(scores, level, rng, 1, -VALUE_INFINITE, MOVE_NONE)

FreshRun ==
    [pc |-> "play", rng |-> NotSeeded, seededAt |-> 0, picks |-> 0,
     best |-> MOVE_NONE]

SkIdle ==
    /\ skScores = <<>>
    /\ skLevel = 0
    /\ skRun = [r \in Runs |-> [FreshRun EXCEPT !.pc = "idle"]]

SkInit ==
    /\ skScores \in ScoreSamples
    /\ skLevel \in LevelSamples
    /\ skRun = [r \in Runs |-> FreshRun]

\* the pick of a search on the root moves scored `scores`, at clock t
PickIn(run, scores, t) ==
    LET rng == RngAtPick(run.rng, t)
        r == pick_best(scores, skLevel, rng)
    IN [run EXCEPT !.rng = r.rng,
                   !.seededAt = IF run.picks = 0 THEN t ELSE @,
                   !.best = r.best]

\* an earlier search of the run picks its move
SkEarlierSearch(r) ==
    /\ skRun[r].pc = "play"
    /\ skRun[r].picks < MaxEarlierPicks
    /\ \E scores \in ScoreSamples, t \in ClockSamples :
          skRun' = [skRun EXCEPT ![r] =
                       [PickIn(skRun[r], scores, t) EXCEPT
                           !.picks = @ + 1, !.best = MOVE_NONE]]
    /\ UNCHANGED <<skScores, skLevel>>
    /\ UNCHANGED nonSkVars

\* the compared search picks its move
SkSearch(r) ==
    /\ skRun[r].pc = "play"
    /\ \E t \in ClockSamples :
          skRun' = [skRun EXCEPT ![r] =
                       [PickIn(skRun[r], skScores, t) EXCEPT !.pc = "picked"]]
    /\ UNCHANGED <<skScores, skLevel>>
    /\ UNCHANGED nonSkVars

(***************************************************************************)
(* The aspiration loop of Thread::search (search.cpp), with search<Root>   *)
(* as an adversary: it may return any value strictly between -INFINITE and *)
(* +INFINITE.  The values tried are those at the edges of the window, at   *)
(* the ends of the value range and inside the window; the results may      *)
(* change between failing low and failing high MaxTurns times.  No stop.   *)
(***************************************************************************)
\* rootMoves[pvIdx].averageScore when the loop is entered
AvgSamples == {-VALUE_INFINITE, 0, 200, 30000}

\* rootDepth and searchAgainCounter of the iteration
AspDepthSamples == {1, 5, 40}
SearchAgainSamples == {0, 3}

NoCall == [alpha |-> -VALUE_INFINITE, beta |-> VALUE_INFINITE, depth |-> 0]

\* Thread::search: adjustedDepth
AdjustedDepth(depth, failedHighCnt, searchAgainCounter) ==
    Max(1, depth - failedHighCnt - (3 * (searchAgainCounter + 1)) \div 4)

\* how a result stands to the window
Failure(w, v) ==
    IF v <= w.alpha THEN "low" ELSE IF v >= w.beta THEN "high" ELSE "none"

\* the results search<Root> is made to return for the window w
ResultSamples(w) ==
    {v \in {w.alpha, w.beta, -VALUE_INFINITE + 1, VALUE_INFINITE - 1,
            CDiv(w.alpha + w.beta, 2)} :
        -VALUE_INFINITE < v /\ v < VALUE_INFINITE}

AspIdle ==
    /\ aspPc = "idle"
    /\ aspIn = [rootDepth |-> 0, searchAgainCounter |-> 0]
    /\ aspWindow = NoWindow
    /\ aspFailedHighCnt = 0
    /\ aspCall = NoCall
    /\ aspValue = VALUE_NONE
    /\ aspRetries = 0
    /\ aspLast = "none"
    /\ aspTurns = 0

\* the aspiration window is reset for the PV line
AspInit ==
    /\ aspPc = "call"
    /\ aspIn \in [rootDepth : AspDepthSamples,
                  searchAgainCounter : SearchAgainSamples]
    /\ \E avg \in AvgSamples : aspWindow = AspirationWindow(avg)
    /\ aspFailedHighCnt = 0
    /\ aspCall = NoCall
    /\ aspValue = VALUE_NONE
    /\ aspRetries = 0
    /\ aspLast = "none"
    /\ aspTurns = 0

\* bestValue = search<Root>(rootPos, ss, alpha, beta, adjustedDepth, false)
AspSearch ==
    /\ aspPc = "call"
    /\ aspCall' = [alpha |-> aspWindow.alpha, beta |-> aspWindow.beta,
                   depth |-> AdjustedDepth(aspIn.rootDepth, aspFailedHighCnt,
                                           aspIn.searchAgainCounter)]
    /\ \E v \in ResultSamples(aspWindow) :
          LET how == Failure(aspWindow, v)
              turn == how # "none" /\ aspLast # "none" /\ how # aspLast
          IN /\ turn => aspTurns < MaxTurns
             /\ aspValue' = v
             /\ aspTurns' = IF turn THEN aspTurns + 1 ELSE aspTurns
             /\ aspLast' = IF how = "none" THEN aspLast ELSE how
    /\ aspPc' = "returned"
    /\ UNCHANGED <<aspIn, aspWindow, aspFailedHighCnt, aspRetries>>
    /\ UNCHANGED nonAspVars

\* the window is widened after a fail low or a fail high, or the loop is left
AspAdjust ==
    /\ aspPc = "returned"
    /\ IF aspValue <= aspWindow.alpha
       THEN /\ aspWindow' = FailLowWindow(aspWindow, aspValue)
            /\ aspFailedHighCnt' = 0
            /\ aspRetries' = aspRetries + 1
            /\ aspPc' = "call"
       ELSE IF aspValue >= aspWindow.beta
       THEN /\ aspWindow' = FailHighWindow(aspWindow, aspValue)
            /\ aspFailedHighCnt' = aspFailedHighCnt + 1
            /\ aspRetries' = aspRetries + 1
            /\ aspPc' = "call"
       ELSE /\ aspPc' = "done"
            /\ UNCHANGED <<aspWindow, aspFailedHighCnt, aspRetries>>
    /\ UNCHANGED <<aspIn, aspCall, aspValue, aspLast, aspTurns>>
    /\ UNCHANGED nonAspVars

(***************************************************************************)
(* Depth and ply along one line of the tree (search.cpp)                   *)
(*                                                                         *)
(* The part follows one line from the root: the frame at its tip, with the *)
(* ply of its stack slot and the depth it was called with.  Each step is   *)
(* one stretch of search or qsearch: the qsearch dispatch, the abort and   *)
(* ply test, and the call of a child (or of a search on the same slot).    *)
(***************************************************************************)
\* Stack stack[MAX_PLY + 10], *ss = stack + 7
StackSize == MAX_PLY + 10
StackBase == 7

LnRootDepthSamples == {1, 6, MAX_PLY - 1}
LnReductionSamples == {-2, 0, 4}
EvalAboveBetaSamples == {0, 6}

NoFrame == [fn |-> "none", nt |-> "NonPV", ply |-> 0, depth |-> 0,
            excludedMove |-> FALSE, multipleExtensions |-> 0]

\* Depth R = std::min(int(eval - beta) / 144, 6) + depth / 3 + 4, with the
\* quotient (eval - beta) / 144 given
NullMoveR(depth, evalOverBeta) == Min(evalOverBeta, 6) + CDiv(depth, 3) + 4

\* depth >= 4 - (thisThread->completedDepth > 30) + ss->ttPv, with the
\* iteration before rd completed and ss->ttPv clear
SingularMinDepth(rd) == 4 - (IF rd - 1 > 30 THEN 1 ELSE 0)

\* the extensions step 15 can give the table move after its singular search
\* (never at the root, never inside a singular search)
SingularExtensions(f, rd) ==
    IF /\ f.nt # "Root" /\ f.ply < rd * 2
       /\ ~f.excludedMove /\ f.depth >= SingularMinDepth(rd)
    THEN {-3, -2, -1, 1}
         \cup (IF ~PvNode(f) /\ f.multipleExtensions <= 16 THEN {2, 3} ELSE {})
         \cup (IF PvNode(f) /\ f.multipleExtensions <= 5 THEN {2} ELSE {})
    ELSE {}

\* the extensions step 15 can give any move: one ply after a null move or for
\* a recapture, which needs a previous move
Extensions(f, rd) ==
    IF f.nt # "Root" /\ f.ply < rd * 2 THEN {0, 1} ELSE {0}

\* Depth d = std::max(1, std::min(newDepth - r, newDepth + 1))
LmrDepth(newDepth, r) == Max(1, Min(newDepth - r, newDepth + 1))

\* a call made by a frame: the frame it enters and whether it is one of the
\* plain calls of the move loop (no extension, no reduction)
Child(f, fn, nt, up, depth, excl, ext, plain) ==
    [frame |-> [fn |-> fn, nt |-> nt, ply |-> f.ply + up, depth |-> depth,
                excludedMove |-> excl,
                multipleExtensions |->
                    IF up = 0 THEN f.multipleExtensions
                    ELSE f.multipleExtensions + (IF ext >= 2 THEN 1 ELSE 0)],
     plain |-> plain]

\* newDepth after step 17: newDepth += doDeeperSearch - doShallowerSearch
\* when the reduced search was shallower than newDepth
AdjustedNewDepths(f, newDepth) ==
    {newDepth} \cup
    { newDepth + s : s \in { t \in {-1, 0, 1} :
          \E r \in LnReductionSamples : f.depth >= 2 /\ LmrDepth(newDepth, r) < newDepth } }

\* the searches of the first move of the move loop, which is the table move
\* when there is one: the full-depth search of step 18 or the PV search
FirstMoveCalls(f, rd) ==
    UNION {
        LET newDepth == f.depth - 1 + ext IN
          { Child(f, "search", "NonPV", 1, newDepth - (IF r > 3 THEN 1 ELSE 0),
                       FALSE, ext, FALSE) : r \in IF PvNode(f) THEN {} ELSE LnReductionSamples }
          \cup { Child(f, "search", "PV", 1, newDepth, FALSE, ext, FALSE) :
              x \in IF PvNode(f) THEN {0} ELSE {} }
        : ext \in SingularExtensions(f, rd) }

\* the searches of any move of the move loop: the reduced search of step 17
\* and its re-search, the full-depth search of step 18, and the PV search
MoveCalls(f, rd) ==
    UNION {
        LET newDepth == f.depth - 1 + ext IN
          { Child(f, "search", "NonPV", 1, LmrDepth(newDepth, r), FALSE, ext, FALSE) :
              r \in IF f.depth >= 2 THEN LnReductionSamples ELSE {} }
          \cup { Child(f, "search", "NonPV", 1, d, FALSE, ext, FALSE) :
              d \in { n \in AdjustedNewDepths(f, newDepth) :
                        \E r \in LnReductionSamples :
                            /\ f.depth >= 2
                            /\ LmrDepth(newDepth, r) < newDepth
                            /\ n > LmrDepth(newDepth, r) } }
          \cup { Child(f, "search", "NonPV", 1, newDepth - (IF r > 3 THEN 1 ELSE 0),
                       FALSE, ext, ext = 0 /\ r <= 3) : r \in LnReductionSamples }
          \cup { Child(f, "search", "PV", 1, d, FALSE, ext, ext = 0 /\ d = newDepth) :
              d \in IF PvNode(f) THEN AdjustedNewDepths(f, newDepth) ELSE {} }
        : ext \in Extensions(f, rd) }

\* the searches a search frame makes before its move loop
EarlyCalls(f, rd) ==
    \* razoring: qsearch<NonPV>(pos, ss, alpha - 1, alpha)
    { Child(f, "qsearch", "NonPV", 0, 0, f.excludedMove, 0, FALSE) }
    \* null move and its verification search
    \cup { Child(f, "search", "NonPV", 1, f.depth - NullMoveR(f.depth, e), FALSE, 0, FALSE) :
             e \in IF ~PvNode(f) /\ ~f.excludedMove THEN EvalAboveBetaSamples ELSE {} }
    \cup { Child(f, "search", "NonPV", 0, f.depth - NullMoveR(f.depth, e), FALSE, 0, FALSE) :
             e \in IF ~PvNode(f) /\ ~f.excludedMove /\ f.depth >= 16
                   THEN EvalAboveBetaSamples ELSE {} }
    \* ProbCut: qsearch, then search at depth - 4
    \cup (IF ~PvNode(f) /\ f.depth > 3
          THEN { Child(f, "qsearch", "NonPV", 1, 0, FALSE, 0, FALSE),
                 Child(f, "search", "NonPV", 1, f.depth - 4, FALSE, 0, FALSE) }
          ELSE {})
    \* the singular search on the frame's own slot
    \cup (IF f.nt # "Root" /\ ~f.excludedMove /\ f.depth >= SingularMinDepth(rd)
          THEN { Child(f, "search", "NonPV", 0, CDiv(f.depth - 1, 2), TRUE, 0, FALSE) }
          ELSE {})

Calls(f, rd) ==
    IF f.fn = "search"
    THEN EarlyCalls(f, rd) \cup FirstMoveCalls(f, rd) \cup MoveCalls(f, rd)
    ELSE { Child(f, "qsearch", f.nt, 1, f.depth - 1, FALSE, 0, TRUE) }

\* the stack slots, relative to ss, a frame has touched when it is at pc
Reach(f, pc) ==
    IF pc \in {"call", "idle"} THEN [lo |-> 0, hi |-> 0]
    ELSE IF f.fn = "qsearch"
    THEN [lo |-> IF pc = "node" THEN -2 ELSE 0,
          hi |-> IF PvNode(f) THEN 1 ELSE 0]
    ELSE [lo |-> IF pc = "node" THEN -7 ELSE 0,
          hi |-> IF pc = "node" THEN 2 ELSE 0]

LnIdle ==
    /\ lnPc = "idle"
    /\ lnFrame = NoFrame
    /\ lnRootDepth = 0
    /\ lnDetours = 0

\* Thread::search calls search<Root>(rootPos, ss, alpha, beta, adjustedDepth, false)
LnStart ==
    /\ lnPc = "idle"
    /\ \E rd \in LnRootDepthSamples, failedHighCnt \in {0, 1} :
         /\ lnRootDepth' = rd
         /\ lnFrame' = [fn |-> "search", nt |-> "Root", ply |-> 0,
                        depth |-> AdjustedDepth(rd, failedHighCnt, 0),
                        excludedMove |-> FALSE, multipleExtensions |-> 0]
    /\ lnPc' = "call"
    /\ lnDetours' = 0
    /\ UNCHANGED nonLnVars

\* if (depth <= 0) return qsearch<PvNode ? PV : NonPV>(pos, ss, alpha, beta)
LnDispatch ==
    /\ lnPc = "call"
    /\ lnFrame' = IF lnFrame.fn = "search" /\ lnFrame.depth <= 0
                  THEN [lnFrame EXCEPT !.fn = "qsearch",
                                       !.nt = IF PvNode(lnFrame) THEN "PV" ELSE "NonPV",
                                       !.depth = 0]
                  ELSE lnFrame
    /\ lnPc' = "entry"
    /\ UNCHANGED <<lnRootDepth, lnDetours>>
    /\ UNCHANGED nonLnVars

\* step 2: the frame returns when the search is aborted, the position is drawn
\* or ss->ply >= MAX_PLY (never at the root)
LnStep2 ==
    /\ lnPc = "entry"
    /\ \E aborted \in BOOLEAN :
         lnPc' = IF /\ lnFrame.nt # "Root"
                    /\ aborted \/ lnFrame.ply >= MAX_PLY
                 THEN "returned" ELSE "node"
    /\ UNCHANGED <<lnFrame, lnRootDepth, lnDetours>>
    /\ UNCHANGED nonLnVars

\* the frame calls search or qsearch
LnRecurse ==
    /\ lnPc = "node"
    /\ \E c \in Calls(lnFrame, lnRootDepth) :
         /\ c.plain \/ lnDetours < MaxDetours
         /\ lnFrame' = c.frame
         /\ lnDetours' = IF c.plain THEN lnDetours ELSE lnDetours + 1
    /\ lnPc' = "call"
    /\ UNCHANGED lnRootDepth
    /\ UNCHANGED nonLnVars

\* the line ends
LnLeave ==
    /\ lnPc \in {"node", "returned"}
    /\ lnPc' = "idle"
    /\ lnFrame' = NoFrame
    /\ lnRootDepth' = 0
    /\ lnDetours' = 0
    /\ UNCHANGED nonLnVars

(***************************************************************************)
(* The iterative-deepening loop of one worker (search.cpp, Thread::search) *)
(*                                                                         *)
(* One worker, main or helper, runs the loop from rootDepth = 0; the stop  *)
(* flag may be raised at any moment by the command loop, by check_time or  *)
(* by the main thread at the end of an iteration.                          *)
(***************************************************************************)
IdDepthLimits == {0, 2}
IdMultiPVs == {1, 2}

IdWorkers == [mainThread : BOOLEAN, depth : IdDepthLimits, multiPV : IdMultiPVs]

\* while (++rootDepth < MAX_PLY && !Threads.stop
\*        && !(Limits.depth && mainThread && rootDepth > Limits.depth))
IterationGuard(w, rd, stopped) ==
    /\ rd < MAX_PLY
    /\ ~stopped
    /\ ~(w.depth # 0 /\ w.mainThread /\ rd > w.depth)

\* completedDepth after an iteration whatever the stop flag says
CompletedDepthUnguarded(stopped, rd, completed) == rd

\* if (!Threads.stop) completedDepth = rootDepth
CompletedDepthAfter(stopped, rd, completed) ==
    IF ~stopped THEN rd ELSE completed

IdIdle ==
    /\ idPc = "idle"
    /\ idWorker = [mainThread |-> FALSE, depth |-> 0, multiPV |-> 1]
    /\ idRootDepth = 0
    /\ idCompletedDepth = 0
    /\ idPvIdx = 0
    /\ idLines = 0

\* start_thinking has set rootDepth = completedDepth = 0
IdInit ==
    /\ idPc = "loop"
    /\ idWorker \in IdWorkers
    /\ idRootDepth = 0
    /\ idCompletedDepth = 0
    /\ idPvIdx = 0
    /\ idLines = 0

\* Threads.stop is raised from outside the loop
IdStop ==
    /\ idPc \notin {"idle", "done"}
    /\ ~stop
    /\ stop' = TRUE
    /\ UNCHANGED idVars
    /\ UNCHANGED nonIdStopVars

\* the guard of the loop and the head of its body
IdLoop ==
    /\ idPc = "loop"
    /\ idRootDepth' = idRootDepth + 1
    /\ idPc' = IF IterationGuard(idWorker, idRootDepth + 1, stop) THEN "pv" ELSE "done"
    /\ idPvIdx' = 0
    /\ idLines' = 0
    /\ UNCHANGED <<idWorker, idCompletedDepth>>
    /\ UNCHANGED nonIdVars

\* for (pvIdx = 0; pvIdx < multiPV && !Threads.stop; ++pvIdx)
IdPvLoop ==
    /\ idPc = "pv"
    /\ idPc' = IF idPvIdx < idWorker.multiPV /\ ~stop THEN "line" ELSE "iter_end"
    /\ UNCHANGED <<idWorker, idRootDepth, idCompletedDepth, idPvIdx, idLines>>
    /\ UNCHANGED nonIdVars

\* one search<Root> of the aspiration loop returns: on stop the loop is left
\* at once, on a fail low or high it is retried, otherwise the line is done
IdLine ==
    /\ idPc = "line"
    /\ \E inside \in BOOLEAN :
         IF stop
         THEN /\ idPvIdx' = idPvIdx + 1
              /\ idPc' = "pv"
              /\ UNCHANGED idLines
         ELSE IF inside
         THEN /\ idPvIdx' = idPvIdx + 1
              /\ idLines' = idLines + 1
              /\ idPc' = "pv"
         ELSE UNCHANGED <<idPvIdx, idLines, idPc>>
    /\ UNCHANGED <<idWorker, idRootDepth, idCompletedDepth>>
    /\ UNCHANGED nonIdVars

\* the end of the iteration: completedDepth, and the main thread may stop
\* the search (mate found, time used up)
IdIterEnd ==
    /\ idPc = "iter_end"
    /\ idCompletedDepth' = CompletedDepthAfter(stop, idRootDepth, idCompletedDepth)
    /\ \E raise \in BOOLEAN : stop' = (stop \/ (raise /\ idWorker.mainThread))
    /\ idPc' = "loop"
    /\ UNCHANGED <<idWorker, idRootDepth, idPvIdx, idLines>>
    /\ UNCHANGED nonIdStopVars

(***************************************************************************)
(* The call counter of MainThread::check_time (search.cpp)                 *)
(*                                                                         *)
(* The main thread calls check_time at every search node; a call past the  *)
(* counter executes the check.  The part counts the calls since the last   *)
(* executed check and records an executed check that found the maximum     *)
(* time exceeded and left the stop flag clear.                             *)
(***************************************************************************)
CheckPeriod == 512

CtNodeLimits == {0, 600, 3000, 1000000}

\* callsCnt = Limits.nodes ? std::min(512, int(Limits.nodes / 1024)) : 512
CallsCntAfterCheck(limits) ==
    IF limits.nodes # 0 THEN Min(CheckPeriod, limits.nodes \div 1024) ELSE CheckPeriod

\* the test of check_time without the maximum time
LimitHitWithoutMaximum(limits, over, onPonderhit, moveTimeUp, nodesReached) ==
    \/ limits.useTime /\ onPonderhit
    \/ limits.movetime /\ moveTimeUp
    \/ limits.nodes # 0 /\ nodesReached

\* (Limits.use_time_management() && (elapsed > Time.maximum() || stopOnPonderhit))
\* || (Limits.movetime && elapsed >= Limits.movetime)
\* || (Limits.nodes && Threads.nodes_searched() >= uint64_t(Limits.nodes))
LimitHit(limits, over, onPonderhit, moveTimeUp, nodesReached) ==
    \/ limits.useTime /\ (over \/ onPonderhit)
    \/ limits.movetime /\ moveTimeUp
    \/ limits.nodes # 0 /\ nodesReached

CtIdle ==
    /\ ctLimits = [useTime |-> FALSE, movetime |-> FALSE, nodes |-> 0]
    /\ ctPonder = FALSE
    /\ ctOver = FALSE
    /\ ctCallsCnt = 0
    /\ ctSince = 0
    /\ ctMissed = "none"

\* a search has been started: callsCnt = 0, elapsed = 0
CtInit ==
    /\ ctLimits \in [useTime : BOOLEAN, movetime : BOOLEAN, nodes : CtNodeLimits]
    /\ ctPonder \in BOOLEAN
    /\ ctOver = FALSE
    /\ ctCallsCnt = 0
    /\ ctSince = 0
    /\ ctMissed = "none"

\* the clock passes Time.maximum()
CtTimeUp ==
    /\ ~stop
    /\ ~ctOver
    /\ ctOver' = TRUE
    /\ UNCHANGED <<ctLimits, ctPonder, ctCallsCnt, ctSince, ctMissed>>
    /\ UNCHANGED nonCtVars

\* "ponderhit": Threads.main()->ponder = false
CtPonderhit ==
    /\ ~stop
    /\ ctPonder
    /\ ctPonder' = FALSE
    /\ UNCHANGED <<ctLimits, ctOver, ctCallsCnt, ctSince, ctMissed>>
    /\ UNCHANGED nonCtVars

\* a successful tablebase probe forces the check on the next call
CtTbProbe ==
    /\ ~stop
    /\ ctCallsCnt # 0
    /\ ctCallsCnt' = 0
    /\ UNCHANGED <<ctLimits, ctPonder, ctOver, ctSince, ctMissed>>
    /\ UNCHANGED nonCtVars

\* MainThread::check_time, called from a search node
CtCheckTime ==
    /\ ~stop
    /\ IF ctCallsCnt - 1 > 0
       THEN /\ ctCallsCnt' = ctCallsCnt - 1
            /\ ctSince' = ctSince + 1
            /\ UNCHANGED <<stop, ctMissed>>
       ELSE /\ ctCallsCnt' = CallsCntAfterCheck(ctLimits)
            /\ ctSince' = 0
            /\ \E onPonderhit \in BOOLEAN, moveTimeUp \in BOOLEAN, nodesReached \in BOOLEAN :
                 stop' = (~ctPonder /\ LimitHit(ctLimits, ctOver, onPonderhit,
                                                moveTimeUp, nodesReached))
            /\ ctMissed' = IF ctLimits.useTime /\ ctOver /\ ~stop'
                           THEN (IF ctPonder THEN "pondering"
                                 ELSE "searching")
                           ELSE ctMissed
    /\ UNCHANGED <<ctLimits, ctPonder, ctOver>>
    /\ UNCHANGED nonCtStopVars

(***************************************************************************)
(* The move loop of one node (search.cpp, search steps 13-21 and qsearch   *)
(* steps 5-9)                                                              *)
(*                                                                         *)
(* The node has the moves its move picker returns, in order, each legal or *)
(* not and a capture or not; the loop skips, prunes or searches them, and  *)
(* the node returns the value it found or its no-move result.              *)
(***************************************************************************)
MoveKinds == [legal : BOOLEAN, capture : BOOLEAN]

\* the picker returns the table move first, then captures, then quiet moves
PickerOrders ==
    UNION { { s \in [1 .. n -> MoveKinds] :
                \A i, j \in 2 .. n : i < j /\ s[j].capture => s[i].capture }
            : n \in 0 .. MaxPicked }

\* what the search of a move returns, seen from the node: mated, or level
ChildValueSamples == {mated_in(4), VALUE_DRAW}

NdNodes ==
    { nd \in [fn : {"search", "qsearch"}, inCheck : BOOLEAN,
              nonPawnMaterial : BOOLEAN, excludedMove : 0 .. MaxPicked,
              moves : PickerOrders] :
        /\ nd.excludedMove # 0 =>
              /\ nd.fn = "search"
              /\ nd.excludedMove \in DOMAIN nd.moves
              /\ nd.moves[nd.excludedMove].legal }

NoMoveLoop ==
    [fn |-> "none", inCheck |-> FALSE, nonPawnMaterial |-> FALSE,
     excludedMove |-> 0, moves |-> <<>>]

\* pruning at every value of bestValue and with any material
PruningAlways(bestValue, nonPawnMaterial) == TRUE

\* if (bestValue > VALUE_TB_LOSS_IN_MAX_PLY && pos.non_pawn_material(us))
PruningAllowed(bestValue, nonPawnMaterial) ==
    bestValue > VALUE_TB_LOSS_IN_MAX_PLY /\ nonPawnMaterial

\* the loop ends only after the third quiet check evasion
QuietEvasionsOverThree(quietCheckEvasions) == quietCheckEvasions > 2

\* if (quietCheckEvasions > 1) break
QuietEvasionsOver(quietCheckEvasions) == quietCheckEvasions > 1

\* bestValue of a node before its move loop: the static evaluation in a
\* qsearch node not in check (stand pat), -VALUE_INFINITE otherwise
BestValueAtLoop(nd) ==
    IF nd.fn = "qsearch" /\ ~nd.inCheck THEN VALUE_DRAW ELSE -VALUE_INFINITE

\* search: bestValue = excludedMove ? alpha : ss->inCheck ? mated_in(ss->ply) : VALUE_DRAW
NoMoveResult(nd) ==
    IF nd.excludedMove # 0 THEN "alpha"
    ELSE IF nd.inCheck THEN "mated" ELSE "draw"

NdIdle ==
    /\ ndPc = "idle"
    /\ ndNode = NoMoveLoop
    /\ ndIdx = 0
    /\ ndMoveCount = 0
    /\ ndBestValue = -VALUE_INFINITE
    /\ ndQuietCheckEvasions = 0
    /\ ndSearched = {}
    /\ ndPastCap = {}
    /\ ndResult = "none"

\* a node at the head of its move loop
NdInit ==
    /\ ndPc = "moves"
    /\ ndNode \in NdNodes
    /\ ndIdx = 0
    /\ ndMoveCount = 0
    /\ ndBestValue = BestValueAtLoop(ndNode)
    /\ ndQuietCheckEvasions = 0
    /\ ndSearched = {}
    /\ ndPastCap = {}
    /\ ndResult = "none"

\* the move is searched: the value of the child, and a cutoff ends the loop
NdSearched(i, fn) ==
    \E value \in ChildValueSamples, cutoff \in BOOLEAN :
        /\ ndBestValue' = Max(ndBestValue, value)
        /\ ndSearched' = ndSearched \cup {i}
        /\ ndPc' = IF cutoff /\ value > ndBestValue THEN fn ELSE "moves"

NdSkipped == UNCHANGED <<ndBestValue, ndSearched, ndPc>>

\* search, steps 13 to 20: one turn of the move loop
NdSearchMove ==
    /\ ndPc = "moves"
    /\ ndNode.fn = "search"
    /\ ndIdx < Len(ndNode.moves)
    /\ LET i == ndIdx + 1
           move == ndNode.moves[i]
       IN /\ ndIdx' = i
          /\ IF i = ndNode.excludedMove \/ ~move.legal
             THEN NdSkipped /\ UNCHANGED ndMoveCount
             ELSE /\ ndMoveCount' = ndMoveCount + 1
                  /\ \/ /\ PruningAllowed(ndBestValue, ndNode.nonPawnMaterial)
                        /\ NdSkipped
                     \/ NdSearched(i, "search_end")
    /\ UNCHANGED <<ndNode, ndQuietCheckEvasions, ndPastCap, ndResult>>
    /\ UNCHANGED nonNdVars

\* search: the picker has no move left, or skips the quiet moves left after
\* move-count pruning
NdSearchNoMore ==
    /\ ndPc = "moves"
    /\ ndNode.fn = "search"
    /\ \/ ndIdx = Len(ndNode.moves)
       \/ /\ ndMoveCount > 0
          /\ PruningAllowed(ndBestValue, ndNode.nonPawnMaterial)
          /\ \A j \in (ndIdx + 1) .. Len(ndNode.moves) : ~ndNode.moves[j].capture
    /\ ndPc' = "search_end"
    /\ UNCHANGED <<ndNode, ndIdx, ndMoveCount, ndBestValue, ndQuietCheckEvasions,
                   ndSearched, ndPastCap, ndResult>>
    /\ UNCHANGED nonNdVars

\* search, step 21: if (!moveCount) the no-move result
NdSearchEnd ==
    /\ ndPc = "search_end"
    /\ ndResult' = IF ndMoveCount = 0 THEN NoMoveResult(ndNode) ELSE "value"
    /\ ndPc' = "done"
    /\ UNCHANGED <<ndNode, ndIdx, ndMoveCount, ndBestValue, ndQuietCheckEvasions,
                   ndSearched, ndPastCap>>
    /\ UNCHANGED nonNdVars

\* qsearch, steps 5 to 8: one turn of the move loop
NdQsMove ==
    /\ ndPc = "moves"
    /\ ndNode.fn = "qsearch"
    /\ ndIdx < Len(ndNode.moves)
    /\ LET i == ndIdx + 1
           move == ndNode.moves[i]
           pruning == PruningAllowed(ndBestValue, ndNode.nonPawnMaterial)
           searched ==
               /\ NdSearched(i, "qsearch_end")
               /\ ndQuietCheckEvasions' =
                     ndQuietCheckEvasions
                       + (IF ~move.capture /\ ndNode.inCheck THEN 1 ELSE 0)
               /\ ndPastCap' =
                     IF ndQuietCheckEvasions > 1
                     THEN ndPastCap \cup
                            {[lost |-> ndBestValue <= VALUE_TB_LOSS_IN_MAX_PLY,
                              nonPawnMaterial |-> ndNode.nonPawnMaterial]}
                     ELSE ndPastCap
       IN /\ ndIdx' = i
          /\ IF ~move.legal
             THEN NdSkipped /\ UNCHANGED <<ndMoveCount, ndQuietCheckEvasions, ndPastCap>>
             ELSE /\ ndMoveCount' = ndMoveCount + 1
                  /\ IF pruning /\ QuietEvasionsOver(ndQuietCheckEvasions)
                     THEN /\ ndPc' = "qsearch_end"
                          /\ UNCHANGED <<ndBestValue, ndSearched,
                                         ndQuietCheckEvasions, ndPastCap>>
                     ELSE \/ /\ pruning
                             /\ NdSkipped
                             /\ UNCHANGED <<ndQuietCheckEvasions, ndPastCap>>
                          \/ searched
    /\ UNCHANGED <<ndNode, ndResult>>
    /\ UNCHANGED nonNdVars

\* qsearch: the picker has no move left
NdQsNoMore ==
    /\ ndPc = "moves"
    /\ ndNode.fn = "qsearch"
    /\ ndIdx = Len(ndNode.moves)
    /\ ndPc' = "qsearch_end"
    /\ UNCHANGED <<ndNode, ndIdx, ndMoveCount, ndBestValue, ndQuietCheckEvasions,
                   ndSearched, ndPastCap, ndResult>>
    /\ UNCHANGED nonNdVars

\* qsearch after the loop: the Variety bonus, then step 9:
\* if (ss->inCheck && bestValue == -VALUE_INFINITE) return mated_in(ss->ply)
NdQsEnd ==
    /\ ndPc = "qsearch_end"
    /\ \E variety \in 0 .. MaxVariety, bonus \in 0 .. MaxVariety :
         /\ bonus <= variety
         /\ bonus > 0 => ndBestValue + CDiv(variety * PawnValue, 100) >= 0
         /\ ndBestValue' = ndBestValue + bonus
         /\ ndResult' = IF ndNode.inCheck /\ ndBestValue + bonus = -VALUE_INFINITE
                        THEN "mated" ELSE "value"
    /\ ndPc' = "done"
    /\ UNCHANGED <<ndNode, ndIdx, ndMoveCount, ndQuietCheckEvasions, ndSearched,
                   ndPastCap>>
    /\ UNCHANGED nonNdVars

(***************************************************************************)
(* The ProbCut of a node in check (search.cpp, search step 12)             *)
(***************************************************************************)
PbBetaSamples == {-VALUE_TB_WIN_IN_MAX_PLY - 100, -1, 0, 1, 100, VALUE_TB_WIN_IN_MAX_PLY}
PbTTValueSamples == {-100, 0, 408, 409, 410, 600, VALUE_TB_WIN_IN_MAX_PLY, VALUE_NONE}
PbDepthSamples == {2, 8}
PbTTDepthSamples == {DEPTH_NONE, 3, 4, 9}

PbInputs ==
    [inCheck : BOOLEAN, PvNode : BOOLEAN, ttCapture : BOOLEAN,
     bound : {BOUND_NONE, BOUND_UPPER, BOUND_LOWER, BOUND_EXACT},
     ttDepth : PbTTDepthSamples, depth : PbDepthSamples,
     ttValue : PbTTValueSamples, beta : PbBetaSamples]

NoPbInput ==
    [inCheck |-> FALSE, PvNode |-> FALSE, ttCapture |-> FALSE, bound |-> BOUND_NONE,
     ttDepth |-> DEPTH_NONE, depth |-> 0, ttValue |-> VALUE_NONE, beta |-> 0]

\* tte->bound() & BOUND_LOWER, as an integer
AndBoundLower(bound) == IF bound \in {BOUND_LOWER, BOUND_EXACT} THEN BOUND_LOWER ELSE 0

\* probCutBeta = beta + 409
InCheckProbCutBeta(beta) == beta + 409

\* the condition of step 12 as the compiler reads it: std::abs(beta) stands
\* alone as an operand of &&, true when it is not zero, and the last
\* comparison is of (tte->bound() & BOUND_LOWER) with VALUE_TB_WIN_IN_MAX_PLY
InCheckProbCut(in) ==
    /\ in.inCheck
    /\ ~in.PvNode
    /\ in.ttCapture
    /\ AndBoundLower(in.bound) # 0
    /\ in.ttDepth >= in.depth - 4
    /\ in.ttValue >= InCheckProbCutBeta(in.beta)
    /\ Abs(in.ttValue) < VALUE_TB_WIN_IN_MAX_PLY
    /\ Abs(in.beta) # 0
    /\ Abs(in.ttValue) < VALUE_TB_WIN_IN_MAX_PLY
    /\ AndBoundLower(in.bound) < VALUE_TB_WIN_IN_MAX_PLY

\* step 12 not reached yet
NoPbOutput == [done |-> FALSE, returned |-> FALSE, value |-> VALUE_NONE]

PbIdle ==
    /\ pbIn = NoPbInput
    /\ pbOut = NoPbOutput

PbInit ==
    /\ pbIn \in PbInputs
    /\ pbOut = NoPbOutput

\* step 12 of a node: return probCutBeta, or go on to the move loop
PbStep12 ==
    /\ ~pbOut.done
    /\ pbIn # NoPbInput
    /\ pbOut' = IF InCheckProbCut(pbIn)
                THEN [done |-> TRUE, returned |-> TRUE,
                      value |-> InCheckProbCutBeta(pbIn.beta)]
                ELSE [done |-> TRUE, returned |-> FALSE, value |-> VALUE_NONE]
    /\ UNCHANGED pbIn
    /\ UNCHANGED nonPbVars

(***************************************************************************)
(* The generation of the table and of one entry over many searches (tt.h)  *)
(*                                                                         *)
(* generation8 and genBound8 are uint8_t; the entry is written by save and *)
(* refreshed by a probe that hits it.                                      *)
(***************************************************************************)
PvBoundBits == 0 .. GENERATION_DELTA - 1

\* new_search() advancing the whole byte by one
NewSearchGenerationByOne(g) == (g + 1) % 256

\* new_search(): generation8 += GENERATION_DELTA, in 8 bits
NewSearchGeneration(g) == (g + GENERATION_DELTA) % 256

\* genBound8 & (GENERATION_DELTA - 1): is_pv and bound
LowBits(genBound) == genBound % GENERATION_DELTA

\* generation8 | low, for low < GENERATION_DELTA
OrLowBits(g, low) ==
    LET bit(x, i) == (x \div 2 ^ i) % 2
        or(i) == IF bit(g, i) = 1 \/ bit(low, i) = 1 THEN 2 ^ i ELSE 0
    IN g - LowBits(g) + or(0) + or(1) + or(2)

\* (GENERATION_CYCLE + generation8 - genBound8) & GENERATION_MASK
RelativeAge(g, genBound) == AndGenerationMask(GENERATION_CYCLE + g - genBound)

GnIdle ==
    /\ gnGeneration8 = 0
    /\ gnGenBound8 = 0
    /\ gnSince = 0
    /\ gnCalls = MaxGenSearches

\* the table as constructed and cleared
GnInit ==
    /\ gnGeneration8 = 0
    /\ gnGenBound8 = 0
    /\ gnSince = 0
    /\ gnCalls = 0

\* TT.new_search() at the start of a search
GnNewSearch ==
    /\ gnCalls < MaxGenSearches
    /\ gnGeneration8' = NewSearchGeneration(gnGeneration8)
    /\ gnSince' = gnSince + 1
    /\ gnCalls' = gnCalls + 1
    /\ UNCHANGED gnGenBound8
    /\ UNCHANGED nonGnVars

\* TTEntry::save writes the entry: genBound8 = generation8 | pv << 2 | b
GnSave ==
    /\ \E low \in PvBoundBits :
         /\ OrLowBits(gnGeneration8, low) # gnGenBound8 \/ gnSince # 0
         /\ gnGenBound8' = OrLowBits(gnGeneration8, low)
    /\ gnSince' = 0
    /\ UNCHANGED <<gnGeneration8, gnCalls>>
    /\ UNCHANGED nonGnVars

\* a probe hits the entry: genBound8 = generation8 | (genBound8 & 7)
GnRefresh ==
    /\ gnSince # 0
    /\ gnGenBound8' = OrLowBits(gnGeneration8, LowBits(gnGenBound8))
    /\ gnSince' = 0
    /\ UNCHANGED <<gnGeneration8, gnCalls>>
    /\ UNCHANGED nonGnVars

(***************************************************************************)
(* The updates of one history counter (search.cpp; operator<< of the       *)
(* tables is in movepick.h)                                                *)
(*                                                                         *)
(* The counter is an entry of one of the five tables of a worker, at any   *)
(* value its table allows; the search passes it the bonuses of its update  *)
(* sites, each computed from the depth and the values of the node.         *)
(***************************************************************************)
HistoryTables == {"mainHistory", "captureHistory", "continuationHistory",
                  "pawnHistory", "correctionHistory"}

CORRECTION_HISTORY_LIMIT == 1024

\* the template argument D of the Stats of each table
HistoryMax(table) ==
    CASE table = "mainHistory" -> 7183
      [] table = "captureHistory" -> 10692
      [] table = "continuationHistory" -> 29952
      [] table = "pawnHistory" -> 8192
      [] table = "correctionHistory" -> CORRECTION_HISTORY_LIMIT

\* depths of nodes, of experience entries at least as deep, and newDepth
\* after LMR has made it one shallower than a depth of 2 allows
HsDepthSamples == {0, 1, 2, 3, 4, 5, 6, 7, MAX_PLY - 1}

\* (ss-1)->staticEval + ss->staticEval, and bestValue - ss->staticEval
HsEvalSamples == {-63012, -40000, -200, -122, -9, -1, 0, 1, 9, 99, 200, 40000, 63012}

HsEntrySamples(table) ==
    LET D == HistoryMax(table)
    IN {-D, 1 - D, -(D \div 2), -1, 0, 1, D \div 2, D - 1, D}

\* an update that adds the bonus and nothing else
HistoryUpdateUnsaturated(entry, bonus, D) == entry + bonus

\* operator<<: entry += bonus - entry * abs(bonus) / D
HistoryUpdate(entry, bonus, D) == entry + bonus - CDiv(entry * Abs(bonus), D)

\* update_continuation_histories: the share of the table i plies back
ContinuationShare(bonus, i) ==
    LET WEIGHT == <<6, 8, 8, 9, 0, 6>>
    IN CDiv(bonus * WEIGHT[i], 8 + 24 * (IF i = 3 THEN 1 ELSE 0))

ContinuationPlies == {1, 2, 3, 4, 6}

\* the bonuses a table gets from a bonus that goes to the quiet, capture
\* and continuation tables alike
SharedBonuses(table, bonus) ==
    IF table = "continuationHistory"
    THEN {ContinuationShare(bonus, i) : i \in ContinuationPlies}
    ELSE {bonus}

\* step 6: the bonus of the static evaluation difference
StaticEvalDifferenceBonus(evalSum) ==
    LET bonus == Max(-1578, Min(1291, -13 * evalSum))
    IN IF bonus > 0 THEN 2 * bonus ELSE CDiv(bonus, 2)

\* the bonus of the correction history
CorrectionBonus(diff, depth) ==
    Max(-(CORRECTION_HISTORY_LIMIT \div 4),
        Min(CORRECTION_HISTORY_LIMIT \div 4, CDiv(diff * depth, 8)))

HsIdle ==
    /\ hsTable = "mainHistory"
    /\ hsEntry = 0
    /\ hsBonus = 0
    /\ hsSite = "none"
    /\ hsUpdates = MaxUpdates

HsInit ==
    /\ hsTable \in HistoryTables
    /\ hsEntry \in HsEntrySamples(hsTable)
    /\ hsBonus = 0
    /\ hsSite = "none"
    /\ hsUpdates = 0

\* the counter << bonus, at a site of the search
HsPass(site, bonus) ==
    /\ hsUpdates < MaxUpdates
    /\ hsEntry' = HistoryUpdate(hsEntry, bonus, HistoryMax(hsTable))
    /\ hsBonus' = bonus
    /\ hsSite' = site
    /\ hsUpdates' = hsUpdates + 1
    /\ UNCHANGED hsTable
    /\ UNCHANGED nonHsVars

\* operator<< with any bonus its assertion allows
HsShift ==
    \E bonus \in HsEntrySamples(hsTable) : HsPass("operator", bonus)

\* update_quiet_stats, update_all_stats, post LMR: stat_bonus of a depth
HsStatBonus ==
    /\ hsTable \in {"mainHistory", "captureHistory", "continuationHistory",
                    "pawnHistory"}
    /\ \E d \in HsDepthSamples \ {0} :
         \E bonus \in SharedBonuses(hsTable, stat_bonus(d)) :
            HsPass("stat_bonus", bonus)

\* the penalties: -stat_malus of a depth
HsStatMalus ==
    /\ hsTable \in {"mainHistory", "captureHistory", "continuationHistory",
                    "pawnHistory"}
    /\ \E d \in HsDepthSamples :
         \E bonus \in SharedBonuses(hsTable, -stat_malus(d)) :
            HsPass("stat_malus", bonus)

\* the bonus for the prior countermove that caused the fail low
HsPriorCountermove ==
    \E d \in HsDepthSamples \ {0}, bonus \in 0 .. 5 :
       \/ /\ hsTable = "continuationHistory"
          /\ \E share \in SharedBonuses(hsTable, stat_bonus(d) * bonus) :
                HsPass("prior countermove", share)
       \/ /\ hsTable = "mainHistory"
          /\ HsPass("prior countermove", CDiv(stat_bonus(d) * bonus, 2))

\* step 6: the static evaluation difference improves quiet move ordering
HsStaticEvalDifference ==
    \E evalSum \in HsEvalSamples :
       LET bonus == StaticEvalDifferenceBonus(evalSum)
       IN \/ /\ hsTable = "mainHistory"
             /\ HsPass("static eval", bonus)
          \/ /\ hsTable = "pawnHistory"
             /\ HsPass("static eval", CDiv(bonus, 2))

\* adjust correction history
HsCorrection ==
    /\ hsTable = "correctionHistory"
    /\ \E diff \in HsEvalSamples, d \in HsDepthSamples \ {0} :
          HsPass("correction", CorrectionBonus(diff, d))

(***************************************************************************)
(* Specifications                                                          *)
(***************************************************************************)
Init == UciInit /\ VtIdle /\ TtIdle /\ RmIdle /\ SrIdle /\ CfgInit /\ RaceIdle /\ PfIdle
    /\ HsIdle
    /\ GnIdle
    /\ PbIdle
    /\ NdIdle
    /\ CtIdle
    /\ IdIdle
    /\ LnIdle
    /\ AspIdle
    /\ SkIdle
    /\ EvIdle

Next ==
    \/ UciStop
    \/ UciQuit
    \/ UciPonderhit
    \/ UciGo
    \/ StartThinking
    \/ Tick
    \/ MainStart
    \/ MainLoop
    \/ MainEnterRoot
    \/ MainNode
    \/ MainRootReturn
    \/ MainIterEnd
    \/ MainBusyWait
    \/ MainPrintBest
    \/ \E h \in Helpers : HelperLoop(h)
    \/ \E h \in Helpers : HelperRootReturn(h)

Spec == Init /\ [][Next]_vars

\* every thread that can run is eventually scheduled
FairSpec ==
    /\ Init
    /\ [][Next]_vars
    /\ WF_vars(MainStep)
    /\ \A h \in Helpers : WF_vars(HelperStep(h))

\* the command loop with setoption and ucinewgame besides
NextCommands ==
    \/ UciStop
    \/ UciQuit
    \/ UciPonderhit
    \/ UciGo
    \/ StartThinking
    \/ UciSetoption
    \/ SetoptionAssign
    \/ UciNewGame
    \/ SearchClear
    \/ Tick
    \/ MainStart
    \/ MainLoop
    \/ MainEnterRoot
    \/ MainNode
    \/ MainRootReturn
    \/ MainIterEnd
    \/ MainBusyWait
    \/ MainPrintBest
    \/ \E h \in Helpers : HelperLoop(h)
    \/ \E h \in Helpers : HelperRootReturn(h)

SpecCommands == Init /\ [][NextCommands]_vars

\* the command loop goes on once the wait of a command is over
CommandStep == StartThinking \/ SetoptionAssign \/ SearchClear

\* the commands that wait for the search, sent to a search under way; the
\* clock stands still, so that no time limit ends a search early and every
\* search runs to its depth limit or to a stop
NextWaiting ==
    \/ UciStop
    \/ UciPonderhit
    \/ UciGo
    \/ StartThinking
    \/ UciSetoption
    \/ SetoptionAssign
    \/ UciNewGame
    \/ SearchClear
    \/ MainStart
    \/ MainLoop
    \/ MainEnterRoot
    \/ MainNode
    \/ MainRootReturn
    \/ MainIterEnd
    \/ MainBusyWait
    \/ MainPrintBest
    \/ \E h \in Helpers : HelperLoop(h)
    \/ \E h \in Helpers : HelperRootReturn(h)

\* the commands with every thread eventually scheduled
FairCommands ==
    /\ Init
    /\ [][NextWaiting]_vars
    /\ WF_vars(MainStep)
    /\ \A h \in Helpers : WF_vars(HelperStep(h))
    /\ WF_vars(CommandStep)

\* one table entry, its writers and its reader
InitRace == UciInit /\ VtIdle /\ TtIdle /\ RmIdle /\ SrIdle /\ CfgInit /\ RaceInit /\ PfIdle
    /\ HsIdle
    /\ GnIdle
    /\ PbIdle
    /\ NdIdle
    /\ CtIdle
    /\ IdIdle
    /\ LnIdle
    /\ AspIdle
    /\ SkIdle
    /\ EvIdle

NextRace ==
    \/ \E w \in Writers : WrBegin(w)
    \/ \E w \in Writers : WrMove(w)
    \/ \E w \in Writers : WrKey(w)
    \/ RdProbe
    \/ RdMove
    \/ RdCutoff
    \/ RdMovesLoop
    \/ RdPonder

SpecRace == InitRace /\ [][NextRace]_vars

\* go perft on a move tree
InitPerft ==
    UciInit /\ VtIdle /\ TtIdle /\ RmIdle /\ SrIdle /\ CfgInit /\ RaceIdle /\ PfInit
    /\ HsIdle
    /\ GnIdle
    /\ PbIdle
    /\ NdIdle
    /\ CtIdle
    /\ IdIdle
    /\ LnIdle
    /\ AspIdle
    /\ SkIdle
    /\ EvIdle

NextPerft == PfRun

SpecPerft == InitPerft /\ [][NextPerft]_vars

\* the aspiration loop against any result of search<Root>; the loop is code
\* of a running thread, so its next step is eventually taken
InitAspiration ==
    UciInit /\ VtIdle /\ TtIdle /\ RmIdle /\ SrIdle /\ CfgInit /\ RaceIdle /\ PfIdle
    /\ HsIdle
    /\ GnIdle
    /\ PbIdle
    /\ NdIdle
    /\ CtIdle
    /\ IdIdle
    /\ LnIdle
    /\ EvIdle /\ SkIdle /\ AspInit

NextAspiration == AspSearch \/ AspAdjust

SpecAspiration ==
    InitAspiration /\ [][NextAspiration]_vars /\ WF_vars(NextAspiration)

\* the picks of two runs of the process
InitSkill ==
    UciInit /\ VtIdle /\ TtIdle /\ RmIdle /\ SrIdle /\ CfgInit /\ RaceIdle /\ PfIdle
    /\ HsIdle
    /\ GnIdle
    /\ PbIdle
    /\ NdIdle
    /\ CtIdle
    /\ IdIdle
    /\ LnIdle
    /\ AspIdle
    /\ EvIdle /\ SkInit

NextSkill == \E r \in Runs : SkEarlierSearch(r) \/ SkSearch(r)

SpecSkill == InitSkill /\ [][NextSkill]_vars

\* Eval::evaluate on the sample inputs
InitEval ==
    UciInit /\ VtIdle /\ TtIdle /\ RmIdle /\ SrIdle /\ CfgInit /\ RaceIdle /\ PfIdle
    /\ HsIdle
    /\ GnIdle
    /\ PbIdle
    /\ NdIdle
    /\ CtIdle
    /\ IdIdle
    /\ LnIdle
    /\ AspIdle
    /\ EvInit /\ SkIdle

NextEval == EvEvaluate

SpecEval == InitEval /\ [][NextEval]_vars

\* one value stored in and read back from the transposition table
InitValueTT == UciInit /\ VtInit /\ TtIdle /\ RmIdle /\ SrIdle /\ CfgInit /\ RaceIdle /\ PfIdle
    /\ HsIdle
    /\ GnIdle
    /\ PbIdle
    /\ NdIdle
    /\ CtIdle
    /\ IdIdle
    /\ LnIdle
    /\ AspIdle
    /\ SkIdle
    /\ EvIdle

NextValueTT == VtStore \/ VtLoad \/ VtShow

SpecValueTT == InitValueTT /\ [][NextValueTT]_vars

\* probes and saves on one cluster of the transposition table
InitTT == UciInit /\ VtIdle /\ TtInit /\ RmIdle /\ SrIdle /\ CfgInit /\ RaceIdle /\ PfIdle
    /\ HsIdle
    /\ GnIdle
    /\ PbIdle
    /\ NdIdle
    /\ CtIdle
    /\ IdIdle
    /\ LnIdle
    /\ AspIdle
    /\ SkIdle
    /\ EvIdle

NextTT == TtNewSearch \/ TtProbe \/ TtSave

SpecTT == InitTT /\ [][NextTT]_vars

\* the root move list of one thread during one go
InitRoot == UciInit /\ VtIdle /\ TtIdle /\ RmInit /\ SrIdle /\ CfgInit /\ RaceIdle /\ PfIdle
    /\ HsIdle
    /\ GnIdle
    /\ PbIdle
    /\ NdIdle
    /\ CtIdle
    /\ IdIdle
    /\ LnIdle
    /\ AspIdle
    /\ SkIdle
    /\ EvIdle

NextRoot ==
    \/ RmStop
    \/ RmStart
    \/ RmIterate
    \/ RmPvLoop
    \/ RmSearchMove
    \/ RmAspiration
    \/ RmSortPv
    \/ RmIterEnd
    \/ RmExit
    \/ RmPrintBest

SpecRoot == InitRoot /\ [][NextRoot]_vars

\* one worker's search: the aspiration loop and the frames below it
InitSearch == UciInit /\ VtIdle /\ TtIdle /\ RmIdle /\ SrInit /\ CfgInit /\ RaceIdle /\ PfIdle
    /\ HsIdle
    /\ GnIdle
    /\ PbIdle
    /\ NdIdle
    /\ CtIdle
    /\ IdIdle
    /\ LnIdle
    /\ AspIdle
    /\ SkIdle
    /\ EvIdle

NextSearch ==
    \/ SrStop
    \/ SrStartRoot
    \/ SrStartInner
    \/ SrAspiration
    \/ SearchEntry
    \/ SearchProbe
    \/ SearchStaticEval
    \/ AfterRazoring
    \/ SearchFutility
    \/ AfterNullMove
    \/ AfterVerification
    \/ SearchIIR
    \/ SearchProbCut
    \/ AfterProbCutQs
    \/ AfterProbCut
    \/ SearchMove
    \/ AfterSingular
    \/ SearchMakeMove
    \/ AfterLmr
    \/ AfterLmrResearch
    \/ AfterFullDepth
    \/ AfterPvSearch
    \/ SearchEnd
    \/ QsEntry
    \/ QsMove
    \/ AfterQsChild
    \/ QsEnd

SpecSearch == InitSearch /\ [][NextSearch]_vars

\* one line of the tree, from the root frame down
InitLine ==
    UciInit /\ VtIdle /\ TtIdle /\ RmIdle /\ SrIdle /\ CfgInit /\ RaceIdle /\ PfIdle
    /\ HsIdle
    /\ GnIdle
    /\ PbIdle
    /\ NdIdle
    /\ CtIdle
    /\ IdIdle
    /\ EvIdle /\ SkIdle /\ AspIdle /\ LnIdle

NextLine == LnStart \/ LnDispatch \/ LnStep2 \/ LnRecurse \/ LnLeave

SpecLine == InitLine /\ [][NextLine]_vars

\* the iterative-deepening loop of one worker
InitDeepening ==
    UciInit /\ VtIdle /\ TtIdle /\ RmIdle /\ SrIdle /\ CfgInit /\ RaceIdle /\ PfIdle
    /\ HsIdle
    /\ GnIdle
    /\ PbIdle
    /\ NdIdle
    /\ CtIdle
    /\ EvIdle /\ SkIdle /\ AspIdle /\ LnIdle /\ IdInit

NextDeepening == IdStop \/ IdLoop \/ IdPvLoop \/ IdLine \/ IdIterEnd

SpecDeepening == InitDeepening /\ [][NextDeepening]_vars

\* the calls of check_time during one search
InitCheckTime ==
    UciInit /\ VtIdle /\ TtIdle /\ RmIdle /\ SrIdle /\ CfgInit /\ RaceIdle /\ PfIdle
    /\ HsIdle
    /\ GnIdle
    /\ PbIdle
    /\ NdIdle
    /\ EvIdle /\ SkIdle /\ AspIdle /\ LnIdle /\ IdIdle /\ CtInit

NextCheckTime == CtTimeUp \/ CtPonderhit \/ CtTbProbe \/ CtCheckTime

SpecCheckTime == InitCheckTime /\ [][NextCheckTime]_vars

\* the move loop of one node
InitMoveLoop ==
    UciInit /\ VtIdle /\ TtIdle /\ RmIdle /\ SrIdle /\ CfgInit /\ RaceIdle /\ PfIdle
    /\ HsIdle
    /\ GnIdle
    /\ PbIdle
    /\ EvIdle /\ SkIdle /\ AspIdle /\ LnIdle /\ IdIdle /\ CtIdle /\ NdInit

NextMoveLoop ==
    NdSearchMove \/ NdSearchNoMore \/ NdSearchEnd \/ NdQsMove \/ NdQsNoMore \/ NdQsEnd

SpecMoveLoop == InitMoveLoop /\ [][NextMoveLoop]_vars

\* step 12 of a node, for every input
InitInCheckProbCut ==
    UciInit /\ VtIdle /\ TtIdle /\ RmIdle /\ SrIdle /\ CfgInit /\ RaceIdle /\ PfIdle
    /\ HsIdle
    /\ GnIdle
    /\ EvIdle /\ SkIdle /\ AspIdle /\ LnIdle /\ IdIdle /\ CtIdle /\ NdIdle /\ PbInit

NextInCheckProbCut == PbStep12

SpecInCheckProbCut == InitInCheckProbCut /\ [][NextInCheckProbCut]_vars

\* the generation of the table and of one entry over many searches
InitGeneration ==
    UciInit /\ VtIdle /\ TtIdle /\ RmIdle /\ SrIdle /\ CfgInit /\ RaceIdle /\ PfIdle
    /\ HsIdle
    /\ EvIdle /\ SkIdle /\ AspIdle /\ LnIdle /\ IdIdle /\ CtIdle /\ NdIdle /\ PbIdle
    /\ GnInit

NextGeneration == GnNewSearch \/ GnSave \/ GnRefresh

SpecGeneration == InitGeneration /\ [][NextGeneration]_vars

\* the updates of one history counter
InitHistory ==
    UciInit /\ VtIdle /\ TtIdle /\ RmIdle /\ SrIdle /\ CfgInit /\ RaceIdle /\ PfIdle
    /\ EvIdle /\ SkIdle /\ AspIdle /\ LnIdle /\ IdIdle /\ CtIdle /\ NdIdle /\ PbIdle
    /\ GnIdle /\ HsInit

NextHistory ==
    \/ HsShift
    \/ HsStatBonus
    \/ HsStatMalus
    \/ HsPriorCountermove
    \/ HsStaticEvalDifference
    \/ HsCorrection

SpecHistory == InitHistory /\ [][NextHistory]_vars

(***************************************************************************)
(* Properties of the go/stop/ponder lifecycle                              *)
(***************************************************************************)
AllHelpersIdle == \A h \in Helpers : helperPc[h] = "idle"

BestmovePrinted == bestmoves' > bestmoves

\* a step of UCI::loop that processes "ponderhit" while a search runs
PonderhitDuringPonder == Searching /\ ponder /\ ~ponder'

\* a step of the main thread in which check_time runs past its call counter
CheckTimeRuns ==
    /\ CheckTimeExecutes
    /\ \/ mainPc = "asp" /\ mainPc' = "root"
       \/ nodes' = nodes + 1

\* C1: when stop (or quit) is processed while a go search runs, every worker
\* eventually leaves its iterative-deepening loop and exactly one bestmove is
\* printed for that go; it is printed only with the stop flag set and after
\* every helper has finished.
C1_StopEndsSearch ==
    /\ (stopDuringSearch ~> (mainPc = "idle" /\ AllHelpersIdle /\ bestmoves = 1))
    /\ [](bestmoves <= 1)
    /\ [][BestmovePrinted => (stop /\ AllHelpersIdle)]_vars

C1_Witness ==
    /\ stopDuringSearch
    /\ Limits.infinite
    /\ nodes >= 1
    /\ mainPc = "idle"
    /\ bestmoves = 1

\* C2: in a "go ponder" or "go infinite" search no bestmove is printed before
\* the controller has sent stop, quit or ponderhit, whatever other limits are
\* given.
C2_NoBestmoveBeforeRelease ==
    (bestmoves > 0 /\ (goPonder \/ Limits.infinite)) => released

\* C10 as stated: processing ponderhit during a ponder search clears
\* stopOnPonderhit, and raises stop when the budget had already elapsed
\* (stopOnPonderhit was set).
C10_PonderhitClearsFlag ==
    [][PonderhitDuringPonder =>
          (~stopOnPonderhit' /\ (stopOnPonderhit => stop'))]_vars

\* C10 amended: ponderhit only clears the ponder flag and leaves
\* stopOnPonderhit and stop as they are; the main thread raises stop at the
\* next check_time that runs with ponder cleared, time management in use and
\* stopOnPonderhit still set; and once ponder is cleared in a ponder search
\* that is not infinite, a bestmove follows.
C10_PonderhitOnlyClearsPonder ==
    /\ [][PonderhitDuringPonder =>
             (stopOnPonderhit' = stopOnPonderhit /\ stop' = stop)]_vars
    /\ [][(CheckTimeRuns /\ ~ponder /\ Limits.useTime /\ stopOnPonderhit)
             => stop']_vars
    /\ ((Searching /\ goPonder /\ ~ponder /\ ~Limits.infinite
            /\ Limits.perft = 0) ~> (bestmoves = 1))

C10_Witness ==
    /\ goPonder
    /\ ~ponder
    /\ stopOnPonderhit
    /\ stop
    /\ ~stopDuringSearch
    /\ mainPc = "root"


(***************************************************************************)
(* Properties of the transposition-table value round trip                  *)
(***************************************************************************)
NonMate(v) == Abs(v) < VALUE_MATE_IN_MAX_PLY

C7_ProbeAfterSaveHits ==
    (ttPc = "probed" /\ ttLastSave = ttKey) =>
        (ttHit /\ ttTable[tte].key = ttKey)

(***************************************************************************)
(* Properties of the root move list                                        *)
(***************************************************************************)
\* the list has been sorted: an iteration has ended, or the bestmove is out
RootSorted == rmPc \in {"iter_end", "done"}

\* C8 as stated: after sorting, rootMoves[0].score >= rootMoves[i].score for
\* every i, at the end of every iteration and when the bestmove is printed,
\* whatever MultiPV, tablebase ranks, skill setting and book outcome.
C8_FrontIsBest ==
    RootSorted =>
        \A i \in DOMAIN rootMoves : rootMoves[0].score >= rootMoves[i].score

\* C8 amended: at the end of every iteration rootMoves[0].score is at least
\* the score of every root move of the same tablebase rank, and so it is when
\* the bestmove is printed unless the skill swap has been applied.
C8_FrontIsBestOfRank ==
    (rmPc = "iter_end" \/ (rmPc = "done" /\ ~skillEnabled)) =>
        \A i \in DOMAIN rootMoves :
            rootMoves[i].tbRank = rootMoves[0].tbRank =>
                rootMoves[0].score >= rootMoves[i].score

C8_Witness ==
    /\ rmPc = "done"
    /\ ~skillEnabled
    /\ rmDepth > MaxIterations
    /\ rootMoves[0].mv # 1
    /\ rootMoves[0].tbRank = rootMoves[1].tbRank
    /\ rootMoves[0].score > rootMoves[1].score
    /\ rootMoves[1].score > -VALUE_INFINITE

(***************************************************************************)
(* Properties of the search and qsearch frames                             *)
(***************************************************************************)
\* C3 as stated: a search frame that returns because it has read the stop
\* flag as set, at its entry or after a move, returns exactly VALUE_ZERO
C3_StopReturnsZero ==
    srRet.fn = "search" /\ srRet.why \in {"stop_entry", "stop_move"}
        => srRet.val = VALUE_ZERO

\* C3 amended: the stop check after a move returns exactly VALUE_ZERO; the
\* check at the entry of a node returns the draw value, VALUE_DRAW - 1 or
\* VALUE_DRAW + 1, or at MAX_PLY outside check the static evaluation
C3_StopReturnValues ==
    /\ srRet.why = "stop_move" => srRet.val = VALUE_ZERO
    /\ srRet.why = "stop_entry" =>
          IF srRet.ply >= MAX_PLY /\ ~srRet.inCheck
          THEN srRet.val \in EvalSamples
          ELSE srRet.val \in {VALUE_DRAW - 1, VALUE_DRAW + 1}

\* a node below the root returns from its stop check after a move
C3_Witness ==
    /\ srRet.fn = "search"
    /\ srRet.why = "stop_move"
    /\ srRet.nt # "Root"
    /\ stopSeen

\* C4: once a frame of the worker has read the stop flag as set, no frame
\* of the worker writes to the transposition table or to a history table
C4_NoWriteAfterStop == lateWrite = "none"

WindowOk(f) ==
    /\ -VALUE_INFINITE <= f.alpha
    /\ f.alpha < f.beta
    /\ f.beta <= VALUE_INFINITE

\* C5: every frame of search and qsearch has a window with
\* -VALUE_INFINITE <= alpha < beta <= VALUE_INFINITE, at its entry and after
\* the node has adjusted it, and a NonPV frame is entered with
\* alpha = beta - 1
C5_WindowsValid ==
    \A i \in DOMAIN stack :
       /\ WindowOk(stack[i])
       /\ stack[i].nt = "NonPV" /\ stack[i].pc = "entry"
             => stack[i].alpha = stack[i].beta - 1

\* the search of a ProbCut capture is entered below a node whose window the
\* node has been through mate distance pruning with
C5_Witness ==
    /\ Len(stack) = 2
    /\ stack[1].pc = "probcut_wait"
    /\ stack[2].pc = "entry"
    /\ stack[2].fn = "search"

\* C9 as stated: a stand-pat return of qsearch is not below the alpha the
\* caller passed, and a value that futility pruning has set is not above it
C9_QsearchEntryAlpha ==
    srRet.fn = "qsearch" =>
       /\ srRet.why = "stand_pat" => srRet.val >= srRet.alphaEntry
       /\ srRet.why = "end" /\ srRet.via = "futility"
             => srRet.val <= srRet.alphaEntry

\* C9 amended: a stand-pat return of qsearch is not below the alpha the
\* caller passed; a value that futility pruning has set is not above the
\* alpha in force in the node, which is the caller's alpha or the draw
\* value the repetition check has raised it to, by more than the Variety
\* bonus added to it; at a NonPV node that alpha is the caller's
C9_QsearchNodeAlpha ==
    srRet.fn = "qsearch" =>
       /\ srRet.why = "stand_pat" => srRet.val >= srRet.alphaEntry
       /\ srRet.why = "end" /\ srRet.via = "futility"
             => /\ srRet.val <= srRet.alpha + srRet.bonus
                /\ srRet.alpha \in {srRet.alphaEntry, VALUE_DRAW - 1,
                                    VALUE_DRAW + 1}
                /\ srRet.nt = "NonPV" => srRet.alpha = srRet.alphaEntry

\* qsearch returns a value that futility pruning has set, in a node whose
\* alpha the repetition check has raised
C9_Witness ==
    /\ srRet.fn = "qsearch"
    /\ srRet.why = "end"
    /\ srRet.via = "futility"
    /\ srRet.alpha > srRet.alphaEntry

(***************************************************************************)
(* Properties of the output of MainThread::search                          *)
(***************************************************************************)
\* the root position had no legal move: rootMoves holds Move::none() alone
RootWithoutMoves == rmPc # "start" /\ rootMoves[0].mv = MOVE_NONE

\* C11: for a root position without legal moves no worker search is started,
\* the one info line is "info depth 0 score cp 0" outside check and
\* "info depth 0 score mate 0" in check, and the bestmove line is
\* "bestmove (none)" without a ponder move.
C11_NoMovesOutput ==
    RootWithoutMoves =>
        /\ ~searchStarted
        /\ infoLines = <<[depth |-> 0,
                          score |-> [unit |-> IF rootInCheck THEN "mate" ELSE "cp",
                                     n |-> 0]]>>
        /\ rmPc = "printed" =>
              bestLine = [mv |-> MOVE_NONE, ponder |-> MOVE_NONE, printed |-> TRUE]

C11_Witness ==
    /\ RootWithoutMoves
    /\ rootInCheck
    /\ bestLine.printed

(***************************************************************************)
(* Properties of setoption and ucinewgame                                  *)
(***************************************************************************)
\* C12: an option is assigned, and the transposition table and the histories
\* are cleared, only while no search is in progress: the main thread is idle
\* and so is every helper.
C12_ConfigOnlyWhenIdle ==
    [][(optionSets' # optionSets \/ searchClears' # searchClears) =>
          (mainPc = "idle" /\ AllHelpersIdle)]_vars

C12_Witness ==
    /\ cfgWaited
    /\ optionSets + searchClears > 0
    /\ bestmoves > 0

(***************************************************************************)
(* Properties of the moves read from the shared table                      *)
(***************************************************************************)
\* C13 as stated: a move read from a table entry is played on the board,
\* used to update the killers, counter moves and histories, or printed as
\* ponder move only when it is legal in the reader's position.
C13_TTMoveValidated ==
    (usedBoard \cup usedHistory \cup usedPonder) \subseteq LegalReplies

(***************************************************************************)
(* Properties of perft                                                     *)
(***************************************************************************)
RECURSIVE Leaves(_, _, _), LeavesFrom(_, _, _, _)

\* the positions d plies below pos, counted move by move down to depth 0
LeavesFrom(shape, pos, d, m) ==
    IF m > Cardinality(MoveList(shape, pos)) THEN 0
    ELSE Leaves(shape, Append(pos, m), d - 1) + LeavesFrom(shape, pos, d, m + 1)

Leaves(shape, pos, d) ==
    IF d = 0 THEN 1 ELSE LeavesFrom(shape, pos, d, 1)

\* C14: perft<true>(P, d) for d >= 1 returns the number of leaves of the
\* legal-move tree of depth d below P, the same as the plain recursion down
\* to depth 0, and leaves the position as it was.
C14_PerftCountsLeaves ==
    pfPc = "done" =>
        /\ pfNodes = Leaves(pfShape, <<>>, pfDepth)
        /\ pfPos = <<>>

C14_Witness ==
    /\ pfPc = "done"
    /\ pfDepth = MaxPerftDepth
    /\ pfShape.dead[1]
    /\ pfNodes > MaxBranch

(***************************************************************************)
(* Properties of the score shown to the controller                         *)
(***************************************************************************)
Shown == vtShown # NoScore

\* C15 as stated: the score of a value that is not a mate score is
\* "cp 100*v/NormalizeToPawnValue", the score of a winning mate score is
\* "mate (MATE-v+1)/2" and the score of a losing one "mate (-MATE-v)/2".
C15_ScoreAsStated ==
    Shown =>
        LET v == vtIn.v
        IN vtShown =
              IF NonMate(v)
              THEN [unit |-> "cp", n |-> CDiv(100 * v, NormalizeToPawnValue)]
              ELSE IF v > 0
              THEN [unit |-> "mate", n |-> CDiv(VALUE_MATE - v + 1, 2)]
              ELSE [unit |-> "mate", n |-> CDiv(-VALUE_MATE - v, 2)]

\* C15 amended: below the tablebase range the score is in centipawns,
\* 100*v/NormalizeToPawnValue rounded towards zero; a tablebase score is shown
\* as 20000 centipawns less its distance VALUE_TB - 1 - |v|, with the sign of
\* v; a mate score is shown as the number of moves to the mate, negative for
\* the side that is mated.
C15_ScoreShown ==
    Shown =>
        LET v == vtIn.v
            n == vtShown.n
        IN IF Abs(v) < VALUE_TB_WIN_IN_MAX_PLY
           THEN /\ vtShown.unit = "cp"
                /\ Abs(n) * NormalizeToPawnValue <= 100 * Abs(v)
                /\ 100 * Abs(v) < (Abs(n) + 1) * NormalizeToPawnValue
                /\ n * v >= 0
           ELSE IF Abs(v) <= VALUE_TB
           THEN /\ vtShown.unit = "cp"
                /\ Abs(n) = 20000 - (VALUE_TB - 1 - Abs(v))
                /\ n * v > 0
           ELSE /\ vtShown.unit = "mate"
                /\ IF v > 0 THEN 2 * n \in {VALUE_MATE - v, VALUE_MATE - v + 1}
                   ELSE 2 * n \in {-VALUE_MATE - v, -VALUE_MATE - v + 1}

C15_Witness ==
    /\ Shown
    /\ vtIn.v = -VALUE_TB_WIN_IN_MAX_PLY
    /\ vtShown.unit = "cp"

(***************************************************************************)
(* Properties of the evaluation                                            *)
(***************************************************************************)
\* the evaluator without the style and the strategy features
StandardEvaluate(in) == EvaluateWith(in, 125, 131, 0)

StandardOptions(in) ==
    /\ in.style = "Default"
    /\ ~in.dynamic
    /\ in.MaterialisticEvaluationStrategy = 0
    /\ in.PositionalEvaluationStrategy = 0

\* C16: with Style = Default, Dynamic Strategy off and both strategy offsets 0
\* evaluate returns what the evaluator without the style and strategy features
\* returns for the position.
C16_DefaultIsStandard ==
    (evPc = "done" /\ StandardOptions(evIn)) => evOut = StandardEvaluate(evIn)

(***************************************************************************)
(* Properties of the skill pick                                            *)
(***************************************************************************)
BothPicked == \A r \in Runs : skRun[r].pc = "picked"

C18_RootMovesTrusted ==
    /\ rootUpdate # "untrusted"
    /\ stopSeen => stop

C18_Witness ==
    /\ stopSeen
    /\ rootUpdate = "trusted"
    /\ srRet.why = "stop_move"
    /\ srRet.nt = "Root"

(***************************************************************************)
(* Properties of the aspiration loop                                       *)
(***************************************************************************)
\* C19: the aspiration loop terminates whatever search<Root> returns between
\* -INFINITE and +INFINITE: it is left with the result strictly inside the
\* window; every window handed to search<Root> has alpha < beta and the depth
\* handed to it is at least 1.
C19_AspirationTerminates ==
    /\ <>(aspPc = "done")
    /\ [](aspPc = "done" =>
             aspWindow.alpha < aspValue /\ aspValue < aspWindow.beta)
    /\ [](aspCall # NoCall =>
             aspCall.alpha < aspCall.beta /\ aspCall.depth >= 1)

C19_Witness ==
    /\ aspPc = "done"
    /\ aspRetries >= 27
    /\ aspTurns = 1
    /\ aspCall.depth = 1
    /\ aspIn.rootDepth > 1

(***************************************************************************)
(* Properties of the saves of a frame with an excluded move                *)
(***************************************************************************)
\* C20 as stated: a frame entered with excludedMove set never saves the table
\* entry of its own position, and neither does a root frame searching a
\* MultiPV line with pvIdx > 0, at any of its saves.
C20_NoSaveWhenGuarded == guardedSaves = {}

\* C20 amended: a frame entered with excludedMove set saves the entry of its
\* own position at its ProbCut save only, and a root frame searching a MultiPV
\* line with pvIdx > 0 at its experience save and its static-eval save only;
\* neither makes the final store.
C20_FinalStoreSuppressed ==
    \A s \in guardedSaves :
        /\ s.excludedMove => s.site = "probcut_tt"
        /\ s.root => s.site \in {"experience_tt", "static_eval"}

C20_Witness ==
    /\ srPc = "done"
    /\ srRet.why = "probcut"
    /\ guardedSaves =
          {[site |-> "probcut_tt", excludedMove |-> TRUE, root |-> FALSE]}

(***************************************************************************)
(* Properties of depth and ply along a line                                *)
(***************************************************************************)
\* the frame at the tip is inside search, past the qsearch dispatch
LnInSearch == lnPc \in {"entry", "node", "returned"} /\ lnFrame.fn = "search"

\* assert(0 < depth && depth < MAX_PLY) at search.cpp:726
LnDepthInRange == LnInSearch => 0 < lnFrame.depth /\ lnFrame.depth < MAX_PLY

\* every frame is entered with 0 <= ss->ply <= MAX_PLY and goes on to its
\* node, where it calls, only with ss->ply < MAX_PLY
LnPlyInRange ==
    /\ lnPc # "idle" => 0 <= lnFrame.ply /\ lnFrame.ply <= MAX_PLY
    /\ lnPc = "node" => lnFrame.ply < MAX_PLY

\* every stack slot the frame touches is one of the StackSize slots
LnStackInBounds ==
    /\ 0 <= StackBase + lnFrame.ply + Reach(lnFrame, lnPc).lo
    /\ StackBase + lnFrame.ply + Reach(lnFrame, lnPc).hi < StackSize

\* C21: at every entry to search past the qsearch dispatch 0 < depth < MAX_PLY;
\* at every entry to search or qsearch 0 <= ss->ply <= MAX_PLY, and a frame
\* with ss->ply >= MAX_PLY returns before it calls; every stack access from
\* ss - 7 to ss + 2 stays inside the MAX_PLY + 10 frames of the driver.
C21_DepthAndPlyBounded == LnDepthInRange /\ LnPlyInRange /\ LnStackInBounds

(***************************************************************************)
(* Properties of the iterative-deepening loop                              *)
(***************************************************************************)
\* C22: completedDepth is only ever set to a rootDepth all of whose MultiPV
\* lines were searched with the stop flag clear; during one search it never
\* decreases and never exceeds rootDepth; with "go depth D" the main
\* thread's completedDepth never exceeds D.
C22_CompletedDepth ==
    /\ [](/\ idCompletedDepth <= idRootDepth
          /\ idWorker.mainThread /\ idWorker.depth > 0
                => idCompletedDepth <= idWorker.depth)
    /\ [][/\ idCompletedDepth' >= idCompletedDepth
          /\ idCompletedDepth' # idCompletedDepth
                => /\ idCompletedDepth' = idRootDepth
                   /\ idLines = idWorker.multiPV
                   /\ ~stop]_vars

C22_Witness ==
    /\ idPc = "done"
    /\ idWorker = [mainThread |-> TRUE, depth |-> 2, multiPV |-> 2]
    /\ idCompletedDepth = 2
    /\ idRootDepth = 3
    /\ ~stop

(***************************************************************************)
(* Properties of check_time                                                *)
(***************************************************************************)
\* an executed check happens at least once every 512 calls of check_time,
\* every min(512, nodes/1024) calls with a node limit
CheckedInTime ==
    ctSince < Max(1, IF ctLimits.nodes # 0
                     THEN Min(CheckPeriod, ctLimits.nodes \div 1024)
                     ELSE CheckPeriod)

\* C23 as stated: under time management, once the elapsed time exceeds the
\* maximum the stop flag is raised no later than the next executed check,
\* and an executed check happens at least once every 512 calls of check_time
\* (min(512, nodes/1024) calls with a node limit).
C23_MaximumAbsolute == ctMissed = "none" /\ CheckedInTime

\* C23 amended: the same unless the search is pondering; while the ponder
\* flag is set an executed check leaves the stop flag clear.
C23_MaximumUnlessPondering == ctMissed # "searching" /\ CheckedInTime

\* the search pondered past the maximum (an executed check left the flag
\* clear), and after "ponderhit" the next executed check raised the flag
C23_Witness ==
    /\ stop
    /\ ctOver
    /\ ~ctPonder
    /\ ctMissed = "pondering"
    /\ ctLimits = [useTime |-> TRUE, movetime |-> FALSE, nodes |-> 0]
    /\ ctCallsCnt = CheckPeriod

(***************************************************************************)
(* Properties of the move loop of a node                                   *)
(***************************************************************************)
\* the node has a legal move to search: one that is not the excluded move
HasMoveToSearch ==
    \E i \in DOMAIN ndNode.moves : ndNode.moves[i].legal /\ i # ndNode.excludedMove

\* C24: the no-legal-move result is produced exactly when the node has no
\* legal move to search: search returns alpha with an excluded move,
\* mated_in(ply) in check and the draw value otherwise; qsearch returns
\* mated_in(ply) only in check without a legal move; pruned moves never make
\* a node with legal moves report mate or stalemate.
C24_NoMoveResultExact ==
    ndPc = "done" =>
        /\ (ndResult # "value") =
               (~HasMoveToSearch /\ (ndNode.fn = "search" \/ ndNode.inCheck))
        /\ ndNode.fn = "search" /\ ndResult # "value" => ndResult = NoMoveResult(ndNode)
        /\ ndNode.fn = "qsearch" /\ ndResult # "value" => ndResult = "mated"

\* a node in check with three legal moves returns a value after it searched
\* the first and skipped the others
C24_Witness ==
    /\ ndPc = "done"
    /\ ndNode.inCheck
    /\ ndResult = "value"
    /\ Len(ndNode.moves) = 3
    /\ \A i \in 1 .. 3 : ndNode.moves[i].legal
    /\ ndSearched = {1}
    /\ ndIdx = 3

\* the quiet moves the node has searched
QuietSearched == {i \in ndSearched : ~ndNode.moves[i].capture}

\* C26 as stated: in every qsearch node in check at most 2 quiet evasions
\* are searched, whatever the material on the board and the best value found
\* so far.
C26_AtMostTwoQuietEvasions ==
    ndNode.fn = "qsearch" /\ ndNode.inCheck => Cardinality(QuietSearched) <= 2

\* C26 amended: in a qsearch node in check no move is searched after two
\* quiet evasions once the best value is above VALUE_TB_LOSS_IN_MAX_PLY and
\* the side to move has non-pawn material; otherwise the quiet evasions
\* searched are not capped.
C26_CappedWhenPruningAllowed ==
    \A s \in ndPastCap : s.lost \/ ~s.nonPawnMaterial

\* a node in check with three quiet evasions and non-pawn material searched
\* two of them, found a value above the loss range and left the loop at the
\* third
C26_Witness ==
    /\ ndPc = "done"
    /\ ndNode.fn = "qsearch" /\ ndNode.inCheck /\ ndNode.nonPawnMaterial
    /\ Len(ndNode.moves) = 3
    /\ \A i \in 1 .. 3 : ndNode.moves[i].legal /\ ~ndNode.moves[i].capture
    /\ ndSearched = {1, 2}
    /\ ndQuietCheckEvasions = 2
    /\ ndBestValue > VALUE_TB_LOSS_IN_MAX_PLY
    /\ ndMoveCount = 3

(***************************************************************************)
(* Properties of the ProbCut of a node in check                            *)
(***************************************************************************)
\* C25: at a non-PV node in check search returns probCutBeta = beta + 409
\* before the move loop exactly when the table move is a capture, the bound
\* includes LOWER, ttDepth >= depth - 4, ttValue >= probCutBeta, and ttValue
\* and beta are both below VALUE_TB_WIN_IN_MAX_PLY in absolute value; the
\* outcome does not depend on whether beta is zero.
C25_InCheckProbCutAsIntended ==
    pbOut.done /\ pbIn.inCheck /\ ~pbIn.PvNode =>
        /\ pbOut.returned =
             (/\ pbIn.ttCapture
              /\ pbIn.bound \in {BOUND_LOWER, BOUND_EXACT}
              /\ pbIn.ttDepth >= pbIn.depth - 4
              /\ pbIn.ttValue >= pbIn.beta + 409
              /\ Abs(pbIn.ttValue) < VALUE_TB_WIN_IN_MAX_PLY
              /\ Abs(pbIn.beta) < VALUE_TB_WIN_IN_MAX_PLY)
        /\ pbOut.returned => pbOut.value = pbIn.beta + 409

(***************************************************************************)
(* Properties of the style adjustment                                      *)
(***************************************************************************)
\* evaluate: the part of the style adjustment that is left in nnue after
\* the re-evaluation by the big network
StyleInResult(in) ==
    LET smallNet == use_smallnet(in.pos)
        first == IF smallNet THEN in.small ELSE in.big
        styled == CDiv(MaterialWeight(in) * first.psqt
                       + PositionalWeight(in) * first.positional, 128)
                  + StyleBonus(in)
    IN IF smallNet /\ Abs(styled) < 236 THEN 0 ELSE StyleBonus(in)

\* the adjustment of each style as the specification lists it
StyleTable(in) ==
    LET pos == in.pos
    IN CASE in.style = "Aggressive" ->
              20 * pos.knightsNearKing + 10 * pos.advancedPawns
         [] in.style = "Defensive" ->
              (IF pos.canCastle THEN 40 ELSE 0) - 15 * pos.isolatedPawns
              - calculate_aggressiveness_bonus(pos)
         [] in.style = "Positional" ->
              10 * pos.bishops + 15 * pos.rooksOnSeventh
         [] OTHER -> calculate_hypnos_default_bonus(pos)

\* C27: for every position the style adjustment added to nnue is the one of
\* the table (Aggressive 20 per own knight near the enemy king plus 10 per
\* own pawn on relative rank >= 5; Defensive 40 if castling is available
\* minus 15 per isolated own pawn minus the aggressiveness bonus; Positional
\* 10 per own bishop plus 15 per own rook on the 7th), and the adjustment is
\* part of the returned evaluation whichever network gave the final score.
C27_StyleAsDocumented ==
    evPc = "done" /\ evIn.style \in {"Aggressive", "Defensive", "Positional"} =>
        /\ StyleBonus(evIn) = StyleTable(evIn)
        /\ StyleInResult(evIn) = StyleTable(evIn)

(***************************************************************************)
(* Properties of the generation arithmetic                                 *)
(***************************************************************************)
\* C28: after any number of new_search calls generation8 has its 3 low bits
\* zero, and for an entry last written or refreshed n new_search calls ago,
\* whatever its pv and bound bits,
\* (GENERATION_CYCLE + generation8 - genBound8) & GENERATION_MASK is
\* 8 * (n mod 32).
C28_RelativeAge ==
    /\ LowBits(gnGeneration8) = 0
    /\ RelativeAge(gnGeneration8, gnGenBound8) = 8 * (gnSince % 32)

\* the generation has overflowed since the entry, which has all of its low
\* bits set, was written more than a full cycle ago
C28_Witness ==
    /\ gnSince > 32
    /\ LowBits(gnGenBound8) = GENERATION_DELTA - 1
    /\ gnGeneration8 < gnGenBound8

InWaitingCommand == uciPc \in {"setoption", "ucinewgame"}

\* a search that does not end before a stop or a ponderhit is read
HeldSearch == Searching /\ ~stop /\ (ponder \/ Limits.infinite)

=============================================================================
